---- MODULE Spec2Model ----
(***************************************************************************)
(* Model of the sashimono host agent: the message board (MessageBoard      *)
(* class, the ledger reconciler) and the instance manager of the daemon    *)
(* (hp_manager.cpp).                                                       *)
(*                                                                         *)
(* Spec    : the message board: lease handlers, expiry, orphan pruner and  *)
(*           the transaction queue, against a nondeterministic ledger and  *)
(*           daemon.                                                       *)
(* SpecHp  : the daemon's instance store and port allocator.               *)
(***************************************************************************)
EXTENDS Integers, Sequences, FiniteSets, TLC

\* ------------------------------------------------------------- bounds
NumTokens == 1
MaxEvents == 2
MaxTime == 2
MaxFailures == 1
StartTime == 10
MaxPayment == 5
LeaseAmount == 2

\* daemon
NumNames == 3
MaxInstanceCount == 2
MaxHpOps == 6
NumEnqueuers == 2  \* concurrent callers of #queueAction
MaxActions == 2    \* actions queued in one behaviour
MaxRestarts == 2   \* restarts of the message board in one behaviour
MaxHeartbeats == 2 \* heartbeat actions queued in one behaviour
MaxMoment == 2     \* the moment counter stops here
MaxVotes == 1      \* votes in the governance file
HeartbeatFreq == 1 \* config.hostHeartbeatFreq
MaxTotal == 3 \* largest max_instance_count of the slot-count fix
MaxIndex == 3 \* largest lease index of a token
NumContainers == 2 \* containers of the timeline
MaxMoments == 2 \* moments of one acquire or extension
MaxTick == 4 \* the timeline's clock stops here
MaxExtraFee == 7 \* largest cfg.xrpl.affordableExtraFee
MaxServed == 3 \* requests the message processor answers
MaxPushes == 1 \* actions one execution queues inside its lease-update section
MaxClock == 130000        \* the wall clock stops here (milliseconds)
ClockStep == 5000         \* the wall clock advances by this much

\* ------------------------------------------------- program constants
HaltTimeout == 60         \* #haltTimeout, in seconds
GraceThresholdPercent == 25   \* #graceThreshold = 0.25
MaxAttempts == 5
HeartbeatRetryCount == 3
HeartbeatRetryDelay == 300000
EmptyReadThreshold == 5   \* EMPTY_READ_TRESHOLD
MsPerSec == 1000
\* config values (ledger hook configuration), in the model's time unit
MomentSize == 1
PruneTimeoutSecs == 1

\* conf::cfg.hp: the ports of the first instance
InitPeerPort == 22861
InitUserPort == 26201
InitGpTcpPort == 36525
InitGpUdpPort == 39064
GpTcpPortCount == 2
GpUdpPortCount == 2
PortModulus == 65536

\* the payments of extend requests; LeaseAmount is the amount per moment
\* encoded in the lease tokens
Payments == 1..MaxPayment

Tokens == 1..NumTokens
Names == 1..NumNames
TxIds == 1..MaxEvents

\* LeaseStatus
ACQUIRING == "Acquiring"
ACQUIRED == "Acquired"
FAILED == "Failed"
DESTROYED == "Destroyed"
BURNED == "Burned"
SASHI_TIMEOUT == "SashiTimeout"
EXTENDED == "Extended"

VARIABLES
    \* message board: persisted
    leases,                  \* leases table: tx_hash -> row
    lastWatchedLedger,       \* util_data.last_watched_ledger
    \* message board: in memory
    expiryList,
    instanceExpirationQueue,
    activeInstanceCount,
    leaseUpdateLock,
    xrplHalted,
    concurrencyQueue,        \* [processing, queue]
    drain,                   \* the running #processConcurrencyQueue: [idx, toKeep]
    schedPc,                 \* the clock scheduler's position
    pruner,                  \* the prune scheduler: [isStartup, running]
    acq,                     \* the acquire handler inside the critical section
    waiting,                 \* handlers spinning on the lease-update lock
    acqLog,                  \* what the acquire or extend handler that just finished logged
    \* environment
    sashiDb,                 \* the daemon's instances, as the message board sees them
    uriTokens,               \* ledger: owner of each lease token
    submitted,               \* ledger: transactions of the host that were accepted
    ledgerIndex,
    now,
    failures,
    \* daemon (hp_manager)
    instances,
    vacant_ports,
    last_assigned_ports,
    last_port_assign_from_vacant,
    hpOps,
    os_users,                \* the names whose OS user and container exist
    data_socket,             \* ctx.data_socket: "closed" for -1
    empty_read_count,
    hpLog,                   \* the request just handled and the replies sent for it
    freed,                   \* history: the tuples of destroyed instances that no
                             \* successful create has received since, in the order
                             \* of destruction
    \* message board: halt detection (times in milliseconds)
    clock,                   \* the wall clock read by getCurrentUnixTime('milli')
    lastLedgerTime,          \* Undefined until the first ledger event
    lastHaltedTime,          \* #lastHaltedTime, Undefined for null
    graceTimeoutRef,         \* the time the grace timer fires at, Undefined for null
    haltLog,                 \* the halt check that just ran: [checked, at, diff]
    \* one queued action retried against a ledger that may confirm late
    rq,
    \* the transaction queue with its lock, step by step
    tq,
    \* an uninterrupted and an interrupted run of the message board, side by side
    rs,
    \* the heartbeat actions, the moment and lastHeartbeatMoment
    hb,
    \* the two lock flags and the position of each execution that takes them
    lk,
    \* the input and the result of the slot-count fix
    fx,
    \* the expiry timeline of several containers and the order of a tick
    tl,
    \* the fee uplift of the transaction queue and the last submission
    fee,
    \* the daemon's message-processor thread, its client and the shutdown
    ch

mbVars == <<leases, lastWatchedLedger, expiryList, instanceExpirationQueue,
            activeInstanceCount, leaseUpdateLock, xrplHalted, concurrencyQueue,
            drain, schedPc, pruner, acq, waiting, acqLog, sashiDb, uriTokens,
            submitted, ledgerIndex, now, failures>>
hpVars == <<instances, vacant_ports, last_assigned_ports,
            last_port_assign_from_vacant, hpOps, os_users, data_socket,
            empty_read_count, hpLog, freed>>
haltVars == <<clock, lastLedgerTime, lastHaltedTime, graceTimeoutRef, haltLog>>
auxVars == <<rq, tq, rs, hb, lk, fx, tl, fee, ch>>
vars == <<mbVars, hpVars, haltVars, auxVars>>

\* ------------------------------------------------------------ helpers
Min(S) == CHOOSE x \in S : \A y \in S : x <= y
Max(S) == CHOOSE x \in S : \A y \in S : x >= y

Range(s) == {s[i] : i \in 1..Len(s)}

\* --------------------------------------------------- lease store (sqlite)
NoRow == [container_name |-> 0, status |-> "none", life_moments |-> 0,
          timestamp |-> 0, rowid |-> 0]

HasRow(L, tx) == tx \in TxIds /\ L[tx].status # "none"
AllRows(L) == {tx \in TxIds : L[tx].status # "none"}

\* getLeaseRecords(): the rows in table order (rowid)
RECURSIVE OrderRows(_, _)
OrderRows(L, S) ==
    IF S = {} THEN <<>>
    ELSE LET tx == CHOOSE t \in S : \A u \in S : L[t].rowid <= L[u].rowid
         IN <<[tx_hash |-> tx, container_name |-> L[tx].container_name,
               status |-> L[tx].status, life_moments |-> L[tx].life_moments,
               timestamp |-> L[tx].timestamp]>> \o OrderRows(L, S \ {tx})

getLeaseRecords(L) == OrderRows(L, AllRows(L))

RowsOf(L, name) == {tx \in AllRows(L) : L[tx].container_name = name}

\* getLeaseTxHash: leaseData[0]?.tx_hash, 0 for undefined
getLeaseTxHash(L, name) ==
    IF RowsOf(L, name) = {} THEN 0
    ELSE CHOOSE t \in RowsOf(L, name) : \A u \in RowsOf(L, name) : L[t].rowid <= L[u].rowid

getLeaseStatus(L, tx) == IF HasRow(L, tx) THEN L[tx].status ELSE "undefined"

NextRowId(L) == IF AllRows(L) = {} THEN 1 ELSE Max({L[t].rowid : t \in AllRows(L)}) + 1

createLeaseRecord(L, txHash, containerName, moments) ==
    [L EXCEPT ![txHash] = [container_name |-> containerName, status |-> ACQUIRING,
                           life_moments |-> moments, timestamp |-> 0,
                           rowid |-> NextRowId(L)]]

updateLeaseStatus(L, txHash, status) ==
    IF HasRow(L, txHash) THEN [L EXCEPT ![txHash].status = status] ELSE L

\* variant: the queued action leaves the row as it is
updateAcquiredRecordSkip(L, txHash, timestamp) == L

updateAcquiredRecord(L, txHash, timestamp) ==
    IF HasRow(L, txHash)
    THEN [L EXCEPT ![txHash].status = ACQUIRED, ![txHash].timestamp = timestamp]
    ELSE L

updateLeaseData(L, txHash, status, lifeMoments) ==
    IF HasRow(L, txHash)
    THEN [L EXCEPT ![txHash].status = status, ![txHash].life_moments = lifeMoments]
    ELSE L

deleteLeaseRecord(L, txHash) ==
    IF txHash \in TxIds THEN [L EXCEPT ![txHash] = NoRow] ELSE L

getExpiryTimestamp(createdTimestamp, moments) == createdTimestamp + moments * MomentSize

\* ------------------------------------------------ expiry list, instances
addToExpiryList(el, txHash, containerName, expiryTimestamp) ==
    Append(el, [txHash |-> txHash, containerName |-> containerName,
                expiryTimestamp |-> expiryTimestamp])

RemoveContainer(s, containerName) ==
    LET Keep(i) == i.containerName # containerName IN SelectSeq(s, Keep)

removeFromExpiryList(el, containerName) == RemoveContainer(el, containerName)

InstanceNames(db) == {db[i].name : i \in 1..Len(db)}

\* the daemon's answer to a destroy request: the row is hard-deleted
SashiRemove(db, name) == LET Keep(i) == i.name # name IN SelectSeq(db, Keep)

\* sashiCli.destroyInstance resolves only if the instance exists and the daemon
\* could uninstall it (ok); otherwise it throws and nothing changed
SashiDestroyOk(db, name, ok) == name \in InstanceNames(db) /\ ok

\* ---------------------------------------------------- transaction queue
Callback(kind, tx, token, arg) == [kind |-> kind, tx |-> tx, token |-> token, arg |-> arg]

queueAction(q, action) ==
    Append(q, [callback |-> action, refs |-> <<"none", "none">>, attempts |-> 0,
               maxAttempts |-> MaxAttempts, delay |-> 0])

Queued(q, kind) == {i \in 1..Len(q) : q[i].callback.kind = kind}

recreateLeaseOffer(st, uriTokenId, noLeaseRecord) ==
    [st EXCEPT !.queue = queueAction(@, Callback("recreateLeaseOffer", 0, uriTokenId, noLeaseRecord))]

\* destroyInstance (the message board's): ok is the daemon's answer
destroyInstance(st, containerName, ok) ==
    IF SashiDestroyOk(st.sashiDb, containerName, ok)
    THEN LET leaseTxHash == getLeaseTxHash(st.leases, containerName)
             s1 == [st EXCEPT !.sashiDb = SashiRemove(@, containerName),
                              !.leases = updateLeaseStatus(@, leaseTxHash, DESTROYED)]
         IN [threw |-> FALSE, st |-> recreateLeaseOffer(s1, containerName, FALSE)]
    ELSE [threw |-> TRUE, st |-> st]

\* ------------------------------------------------- the message board state
\* the part of the state the handlers read and write, as one record
MbState ==
    [leases |-> leases, sashiDb |-> sashiDb, expiryList |-> expiryList,
     expq |-> instanceExpirationQueue, queue |-> concurrencyQueue.queue,
     active |-> activeInstanceCount]

StoreWith(st, processing) ==
    /\ leases' = st.leases
    /\ sashiDb' = st.sashiDb
    /\ expiryList' = st.expiryList
    /\ instanceExpirationQueue' = st.expq
    /\ concurrencyQueue' = [processing |-> processing, queue |-> st.queue]
    /\ activeInstanceCount' = st.active

Store(st) == StoreWith(st, concurrencyQueue.processing)

\* ------------------------------------------------------ handleAcquireLease
\* the catch block: e is the thrown error, destroyName the name the handler
\* passes to sashiCli.destroyInstance (0: the call is not made, or the name
\* is undefined and the daemon finds no such container)
AcquireCatch(st, ev, requestValidated, destroyName, leaseIndexSet, d) ==
    LET s1 == IF requestValidated
              THEN [st EXCEPT !.leases = updateLeaseStatus(@, ev.tx, FAILED)]
              ELSE st
        s2 == IF destroyName # 0 /\ SashiDestroyOk(s1.sashiDb, destroyName, d)
              THEN [s1 EXCEPT !.sashiDb = SashiRemove(@, destroyName)]
              ELSE s1
        s3 == IF leaseIndexSet THEN recreateLeaseOffer(s2, ev.token, FALSE) ELSE s2
    IN [s3 EXCEPT !.queue = queueAction(@, Callback("acquireError", ev.tx, ev.token, 0))]

\* outcome of the validation of an acquire request (lines 1297-1314)
AcquireValidation(ev, owner) ==
    IF ev.shape = "badHost" THEN "invalid_host"
    ELSE IF owner # "tenant" THEN "no_token"
    ELSE IF ev.shape = "badAmount" THEN "amount_mismatch"
    ELSE "valid"

\* the time the instance row of the daemon carries, in milliseconds
InstanceTime(t) == t * MsPerSec

\* second part of the handler: sashiCli.wait, createInstance and the rest.
\*   waitLong   : the wait took more than 40% of the acquire window
\*   cres       : the daemon's answer to create
\*   createLong : the creation ended after more than 80% of the window
\*   d          : the daemon's answer to the destroy that follows a timeout
\*   d2         : the daemon's answer to the destroy of the catch block
AcquireRest(st, ev, t, waitLong, cres, createLong, d, d2) ==
    IF waitLong
    THEN [log |-> "busy_timeout",
          st |-> recreateLeaseOffer(
                    [st EXCEPT !.leases = updateLeaseStatus(@, ev.tx, SASHI_TIMEOUT)],
                    ev.token, FALSE)]
    ELSE IF ev.token \in InstanceNames(st.sashiDb) \/ cres = "create_error"
    THEN [log |-> "create_error", st |-> AcquireCatch(st, ev, TRUE, 0, TRUE, d2)]
    ELSE LET created == [st EXCEPT !.sashiDb =
                            Append(@, [name |-> ev.token, time |-> InstanceTime(t)])]
         IN IF cres = "initiate_error"
            THEN [log |-> "initiate_error",
                  st |-> AcquireCatch(created, ev, TRUE, ev.token, TRUE, d2)]
            ELSE IF createLong
            THEN LET s1 == [created EXCEPT !.leases =
                                updateLeaseStatus(@, ev.tx, SASHI_TIMEOUT)]
                     r == destroyInstance(s1, ev.token, d)
                 IN IF r.threw
                    THEN [log |-> "create_timeout_destroy_error",
                          st |-> AcquireCatch(s1, ev, TRUE, 0, TRUE, d2)]
                    ELSE [log |-> "create_timeout", st |-> r.st]
            ELSE [log |-> "created",
                  st |-> [created EXCEPT
                    !.expiryList = addToExpiryList(@, ev.tx, ev.token,
                                                   getExpiryTimestamp(t, 1)),
                    !.active = @ + 1,
                    !.queue = queueAction(@, Callback("acquireSuccess", ev.tx, ev.token, t))]]

\* ------------------------------------------------------- queued callbacks
\* A callback runs against w = [leases, active, uriTokens, submitted].  o[1]
\* and o[2] tell whether the ledger takes the first and the second
\* transaction the callback submits.  The result carries ok (FALSE: the callback
\* threw), the submission refs, the new w and the number of submissions that
\* failed.
CbResult(ok, refs, w, nfail) == [ok |-> ok, refs |-> refs, w |-> w, nfail |-> nfail]

\* handleAcquireLease's queued action (lines 1368-1409)
AcquireSuccessAction(cb, refs, w, o) ==
    IF refs[1] # "ok" /\ ~o[1]
    THEN CbResult(FALSE, refs, w, 1)
    ELSE IF refs[2] = "ok"
    THEN CbResult(TRUE, <<"ok", "ok">>, w, 0)
    ELSE IF ~o[2]
    THEN CbResult(FALSE, <<"ok", refs[2]>>, w, 1)
    ELSE CbResult(TRUE, <<"ok", "ok">>,
                  [w EXCEPT !.submitted = @ \cup {<<"acquireSuccess", cb.tx>>},
                            !.leases = updateAcquiredRecord(@, cb.tx, cb.arg)],
                  0)

\* the catch block's queued action (lines 1428-1441); the submission's
\* rejection is swallowed by .catch(console.error)
AcquireErrorAction(cb, refs, w, o) ==
    IF refs[1] = "ok" THEN CbResult(TRUE, refs, w, 0)
    ELSE IF o[1]
    THEN CbResult(TRUE, <<"ok", refs[2]>>,
                  [w EXCEPT !.submitted = @ \cup {<<"acquireError", cb.tx>>}], 0)
    ELSE CbResult(TRUE, refs, w, 1)

\* recreateLeaseOffer's queued action (lines 1229-1277).  The ledger burns a
\* token that exists and mints one that does not.
RecreateLeaseOfferAction(cb, refs, w, o) ==
    LET noLeaseRecord == cb.arg
        leaseTxHash == getLeaseTxHash(w.leases, cb.token)
        status == getLeaseStatus(w.leases, leaseTxHash)
        burn == refs[1] # "ok" /\ (noLeaseRecord \/ status \in {DESTROYED, FAILED, SASHI_TIMEOUT})
        burnOk == w.uriTokens[cb.token] # "none" /\ o[1]
        w1 == IF burn
              THEN [w EXCEPT !.uriTokens[cb.token] = "none",
                             !.leases = IF noLeaseRecord THEN @
                                        ELSE updateLeaseStatus(@, leaseTxHash, BURNED)]
              ELSE w
        refs1 == IF burn THEN <<"ok", refs[2]>> ELSE refs
        offer == refs[2] # "ok" /\ (noLeaseRecord \/ getLeaseStatus(w1.leases, leaseTxHash) = BURNED)
        offerOk == w1.uriTokens[cb.token] = "none" /\ o[2]
    IN IF burn /\ ~burnOk
       THEN CbResult(FALSE, refs, w, IF w.uriTokens[cb.token] # "none" THEN 1 ELSE 0)
       ELSE IF ~offer THEN CbResult(TRUE, refs1, w1, 0)
       ELSE IF ~offerOk
       THEN CbResult(FALSE, refs1, w1, IF w1.uriTokens[cb.token] = "none" THEN 1 ELSE 0)
       ELSE CbResult(TRUE, refs1,
                     [w1 EXCEPT !.uriTokens[cb.token] = "host",
                                !.leases = IF noLeaseRecord THEN @
                                           ELSE deleteLeaseRecord(@, leaseTxHash)],
                     0)

\* #expireInstance's queued action (lines 681-693), the extend replies
\* (lines 1519-1551): one submission with a submission ref
SingleSubmitAction(cb, refs, w, o) ==
    IF refs[1] = "ok" THEN CbResult(TRUE, refs, w, 0)
    ELSE IF o[1] THEN CbResult(TRUE, <<"ok", refs[2]>>, w, 0)
    ELSE CbResult(FALSE, refs, w, 1)

\* the pruner's refund actions (lines 893-905 and 956-971): cb.arg tells
\* whether the refund is sent
RefundTenantAction(cb, refs, w, o) ==
    IF refs[1] = "ok" \/ ~cb.arg THEN CbResult(TRUE, refs, w, 0)
    ELSE IF o[1] THEN CbResult(TRUE, <<"ok", refs[2]>>,
                               [w EXCEPT !.submitted = @ \cup {<<"refundTenant", cb.tx>>}], 0)
    ELSE CbResult(FALSE, refs, w, 1)

\* the pruner's last queued action (lines 994-1010): cb.arg is the count the
\* prune pass computed
PruneCountAction(cb, refs, w, o) ==
    IF refs[1] = "ok" \/ w.active = cb.arg THEN CbResult(TRUE, refs, w, 0)
    ELSE IF o[1] THEN CbResult(TRUE, <<"ok", refs[2]>>, [w EXCEPT !.active = cb.arg], 0)
    ELSE CbResult(FALSE, refs, [w EXCEPT !.active = cb.arg], 1)

RunCallback(cb, refs, w, o) ==
    CASE cb.kind = "acquireSuccess" -> AcquireSuccessAction(cb, refs, w, o)
      [] cb.kind = "acquireError" -> AcquireErrorAction(cb, refs, w, o)
      [] cb.kind = "recreateLeaseOffer" -> RecreateLeaseOfferAction(cb, refs, w, o)
      [] cb.kind = "refundTenant" -> RefundTenantAction(cb, refs, w, o)
      [] cb.kind = "pruneCount" -> PruneCountAction(cb, refs, w, o)
      [] OTHER -> SingleSubmitAction(cb, refs, w, o)

\* -------------------------------------------------------- #expireInstance
\* owner is the ledger's answer to getLeaseByIndex; d the daemon's answer to
\* the destroy request.  A throw inside is caught and logged (lines 696-698).
expireInstance(st, lease, owner, d) ==
    LET r == IF owner = "none" THEN [threw |-> FALSE, st |-> st]
             ELSE destroyInstance(st, lease.containerName, d)
    IN IF r.threw THEN st
       ELSE [r.st EXCEPT
               !.active = @ - 1,
               !.expq = RemoveContainer(@, lease.containerName),
               !.queue = queueAction(@, Callback("updateRegInfo", 0, lease.containerName, 0))]

\* the loop of #expireInstances over the expiration queue (lines 543-557):
\* items is the array the loop iterates, the queue itself is re-assigned
RECURSIVE ExpireLoop(_, _, _, _)
ExpireLoop(st, items, owners, d) ==
    IF items = <<>> THEN st
    ELSE LET item == Head(items)
             s1 == expireInstance(st, item, owners[item.containerName], d[item.containerName])
             s2 == [s1 EXCEPT !.expq = RemoveContainer(@, item.containerName)]
         IN ExpireLoop(s2, Tail(items), owners, d)

\* first half of #expireInstances (lines 533-538)
CollectExpired(st, currentTime) ==
    LET Expired(x) == x.expiryTimestamp < currentTime
        Alive(x) == x.expiryTimestamp >= currentTime
    IN [st EXCEPT !.expq = @ \o SelectSeq(st.expiryList, Expired),
                  !.expiryList = SelectSeq(@, Alive)]

\* ------------------------------------------------------- handleExtendLease
\* index of the first element of a sequence of indices hits, 0 if none
FirstIndex(hits) == IF hits = {} THEN 0 ELSE Min(hits)

\* expiryList.find(i => i.containerName === name)
findExpiryItem(el, name) == FirstIndex({i \in 1..Len(el) : el[i].containerName = name})

\* leases.findIndex(l => l.container_name === name)
findLeaseIndex(ls, name) == FirstIndex({i \in 1..Len(ls) : ls[i].container_name = name})

\* the lease row the extend and terminate handlers pick (lines 1491, 1576)
ActiveRowOf(L, name) ==
    LET S == {tx \in RowsOf(L, name) : L[tx].status \in {ACQUIRED, EXTENDED}}
    IN IF S = {} THEN 0
       ELSE CHOOSE t \in S : \A u \in S : L[t].rowid <= L[u].rowid

\* variant: every accepted payment buys one moment
ExtendingMomentsOne(amount) == IF amount < LeaseAmount THEN 0 ELSE 1

\* Math.floor(amount / leaseAmount) (line 1484)
ExtendingMoments(amount) == amount \div LeaseAmount

\* the body of handleExtendLease after the destination check (lines 1471-1551);
\* amount: r.payment; dbOk: updateLeaseData succeeded.  The result carries
\* the line the handler logged.
ExtendBody(st, ev, owner, amount, dbOk) ==
    LET extendingMoments == ExtendingMoments(amount)
        instance == ActiveRowOf(st.leases, ev.token)
        idx == findExpiryItem(st.expiryList, ev.token)
        Err(s) == [s EXCEPT !.queue =
                      queueAction(@, Callback("extendError", ev.tx, ev.token, amount))]
    IN IF owner # "tenant" THEN [log |-> "extend_no_token", st |-> Err(st)]
       ELSE IF extendingMoments < 1 THEN [log |-> "extend_low", st |-> Err(st)]
       ELSE IF instance = 0 THEN [log |-> "extend_no_instance", st |-> Err(st)]
       ELSE IF idx = 0 THEN [log |-> "extend_no_expiry", st |-> Err(st)]
       ELSE LET s1 == [st EXCEPT !.expiryList[idx].expiryTimestamp =
                                    getExpiryTimestamp(@, extendingMoments)]
            IN IF ~dbOk
               THEN [log |-> "extend_db_error", st |-> Err(s1)]
               ELSE [log |-> "extended",
                     st |-> [s1 EXCEPT
                        !.leases = updateLeaseData(@, instance, EXTENDED,
                                       st.leases[instance].life_moments + extendingMoments),
                        !.queue = queueAction(@, Callback("extendSuccess", ev.tx, ev.token,
                                       s1.expiryList[idx].expiryTimestamp))]]

\* ---------------------------------------------------- handleTerminateLease
\* the part after the ledger index is saved (lines 1572-1598)
TerminateBody(st, ev, owner, halted, d) ==
    LET instance == ActiveRowOf(st.leases, ev.token)
        idx == findExpiryItem(st.expiryList, ev.token)
    IN IF owner # "tenant" \/ instance = 0 \/ idx = 0 \/ halted
       THEN st
       ELSE expireInstance(
                [st EXCEPT !.expiryList = removeFromExpiryList(@, ev.token)],
                st.expiryList[idx], owner, d)

\* what the terminate handler logs: "XRPL is halted." (line 1592) for a valid
\* request whose lease is on the expiry list
TerminateLog(st, ev, owner, halted) ==
    IF /\ owner = "tenant"
       /\ ActiveRowOf(st.leases, ev.token) # 0
       /\ findExpiryItem(st.expiryList, ev.token) # 0
       /\ halted
    THEN "terminate_halted" ELSE "none"

\* ------------------------------------------------------ #pruneOrphanLeases
\* the cutoff the pass compares with: new Date(Date.now() - 1000 * timeoutSecs),
\* a number of milliseconds
TimeMargin(t) == MsPerSec * t - MsPerSec * PruneTimeoutSecs

\* The pass carries p = [st, leases, count]: the message board state, the
\* array of lease rows read at the start of the pass (rows are spliced out
\* of it) and the local activeInstanceCount.
RemoveAt(s, i) == SubSeq(s, 1, i - 1) \o SubSeq(s, i + 1, Len(s))

PruneInstance(p, instance, owners, d) ==
    LET leaseIndex == findLeaseIndex(p.leases, instance.name)
    IN IF leaseIndex = 0
       THEN \* no lease row: the name matches the lease id pattern
            IF SashiDestroyOk(p.st.sashiDb, instance.name, d[instance.name])
            THEN [p EXCEPT !.st.sashiDb = SashiRemove(@, instance.name)]
            ELSE p
       ELSE LET lease == p.leases[leaseIndex]
                owner == owners[instance.name]
                p1 == [p EXCEPT !.leases = RemoveAt(@, leaseIndex)]
            IN IF ~(lease.status \in {ACQUIRING, DESTROYED} \/ owner \in {"none", "host"})
               THEN p1
               ELSE IF ~SashiDestroyOk(p.st.sashiDb, instance.name, d[instance.name])
               THEN p1
               ELSE LET leaseTxHash == getLeaseTxHash(p.st.leases, instance.name)
                        s1 == [p.st EXCEPT
                                 !.sashiDb = SashiRemove(@, instance.name),
                                 !.leases = updateLeaseStatus(@, leaseTxHash, DESTROYED)]
                        s2 == IF owner = "tenant"
                              THEN LET r == recreateLeaseOffer(s1, instance.name, FALSE)
                                   IN [r EXCEPT !.queue = queueAction(@,
                                          Callback("refundTenant", lease.tx_hash,
                                                   instance.name, TRUE))]
                              ELSE [s1 EXCEPT !.leases = deleteLeaseRecord(@, lease.tx_hash)]
                    IN [p1 EXCEPT !.st = s2,
                                  !.count = IF lease.status \in {ACQUIRED, EXTENDED}
                                            THEN @ - 1 ELSE @]

RECURSIVE PruneInstances(_, _, _, _)
PruneInstances(p, insts, owners, d) ==
    IF insts = <<>> THEN p
    ELSE PruneInstances(PruneInstance(p, Head(insts), owners, d), Tail(insts), owners, d)

PruneLease(p, lease, owners) ==
    IF lease.container_name \in InstanceNames(p.st.sashiDb)
    THEN p
    ELSE LET owner == owners[lease.container_name]
             s1 == IF lease.status # BURNED
                   THEN [p.st EXCEPT !.leases = updateLeaseStatus(@,
                            getLeaseTxHash(p.st.leases, lease.container_name), DESTROYED)]
                   ELSE p.st
             s2 == IF owner = "tenant"
                   THEN LET r == recreateLeaseOffer(s1, lease.container_name, FALSE)
                        IN [r EXCEPT !.queue = queueAction(@,
                               Callback("refundTenant", lease.tx_hash, lease.container_name,
                                        lease.status = ACQUIRING))]
                   ELSE [s1 EXCEPT !.leases = deleteLeaseRecord(@, lease.tx_hash)]
         IN [p EXCEPT !.st = s2,
                      !.count = IF lease.status \in {ACQUIRED, EXTENDED} THEN @ - 1 ELSE @]

RECURSIVE PruneLeases(_, _, _)
PruneLeases(p, ls, owners) ==
    IF ls = <<>> THEN p
    ELSE PruneLeases(PruneLease(p, Head(ls), owners), Tail(ls), owners)

pruneOrphanLeases(st, isStartup, t, owners, d) ==
    LET timeMargin == TimeMargin(t)
        rows == getLeaseRecords(st.leases)
        Counted(r) == r.status \in {ACQUIRED, EXTENDED}
        Old(i) == isStartup \/ i.time < timeMargin
        p0 == [st |-> st, leases |-> rows, count |-> Len(SelectSeq(rows, Counted))]
        p1 == PruneInstances(p0, SelectSeq(st.sashiDb, Old), owners, d)
        Orphan(l) ==
            \/ l.status \in {DESTROYED, BURNED}
            \/ /\ (isStartup /\ l.status = ACQUIRING) \/ l.timestamp < timeMargin
               /\ l.status \in {ACQUIRING, ACQUIRED, EXTENDED}
        p2 == PruneLeases(p1, SelectSeq(p1.leases, Orphan), owners)
    IN [p2.st EXCEPT !.queue = queueAction(@, Callback("pruneCount", 0, 0, p2.count))]

\* ------------------------------------------------------------------ Init
NoEvent == [kind |-> "none", tx |-> 0, token |-> 0, ledger |-> 0, shape |-> "ok", moments |-> 0]

InitHp ==
    /\ instances = {}
    /\ vacant_ports = <<>>
    /\ last_assigned_ports = [peer_port |-> 0, user_port |-> 0,
                              gp_tcp_port_start |-> 0, gp_udp_port_start |-> 0]
    /\ last_port_assign_from_vacant = TRUE
    /\ hpOps = 0
    /\ os_users = {}
    /\ data_socket = "closed"
    /\ empty_read_count = 0
    /\ freed = <<>>
    /\ hpLog = [req |-> [type |-> "none", name |-> 0, shape |-> "ok"], replies |-> <<>>]

\* a time that was never assigned: undefined or null in the program
Undefined == -1

NoHaltLog == [checked |-> FALSE, at |-> 0, scheduled |-> FALSE]

InitHalt ==
    /\ clock = 0
    /\ lastLedgerTime = Undefined
    /\ lastHaltedTime = Undefined
    /\ graceTimeoutRef = Undefined
    /\ haltLog = NoHaltLog

\* no action is queued
NoRetry == [state |-> "none", kind |-> "none", noLeaseRecord |-> FALSE,
            refs |-> <<"none", "none">>, status |-> "none", attempts |-> 0,
            validated |-> {}, log |-> <<>>]

Enqueuers == 1..NumEnqueuers
ActionIds == 1..MaxActions

\* the transaction queue of the constructor (lines 31-34), no enqueuer at
\* work, no retry timer pending
NoQueue == [processing |-> FALSE, queue |-> <<>>, dpc |-> "idle", idx |-> 0,
            toKeep |-> <<>>, epc |-> [e \in Enqueuers |-> "idle"], timers |-> {},
            nextId |-> 1, result |-> [i \in ActionIds |-> "none"],
            runs |-> [i \in ActionIds |-> 0], limit |-> [i \in ActionIds |-> 0]]

\* the message board after its first start: empty stores, every token
\* offered by the host
NewWorld == [st |-> [leases |-> [tx \in TxIds |-> NoRow], sashiDb |-> <<>>,
                     expiryList |-> <<>>, expq |-> <<>>, queue |-> <<>>, active |-> 0],
             uriTokens |-> [t \in Tokens |-> "host"], submitted |-> {}]

\* a: the run that is never stopped; b: the run that is stopped and
\* restarted; hist: the tenants' transactions on the ledger; lwl: b's
\* last_watched_ledger row, at first the ledger index of the first start
\* (line 1647); missed: a transaction arrived while b
\* was down
NoRuns == [up |-> TRUE, a |-> NewWorld, b |-> NewWorld, hist |-> <<>>, lwl |-> 0,
           missed |-> FALSE, restarts |-> 0]

\* the host has sent a heartbeat in an earlier moment (line 108); no
\* heartbeat action is queued
HeartbeatIds == 1..MaxHeartbeats
NoHeartbeat == [moment |-> 1, last |-> 0,
                actions |-> [i \in HeartbeatIds |->
                               [state |-> "none", ref |-> "none", attempts |-> 0]],
                accepted |-> {}, log |-> <<>>]

\* the executions that take the lease-update lock: the acquire handler
\* (line 1295), the expiration pass of the clock scheduler (line 542, followed
\* by the drain of line 763), the orphan pruner (line 742) and the
\* terminate handler (line 1557); both flags start false (lines 33, 39)
LockProcs == {"acquire", "expire", "prune", "terminate"}
NoLocks == [lease |-> FALSE, queue |-> FALSE,
            pc |-> [p \in LockProcs |-> "out"],
            want |-> [p \in LockProcs |-> "none"],
            held |-> [p \in LockProcs |-> {}],
            pushes |-> [p \in LockProcs |-> 0]]

\* the slot-count fix has not run
LeaseIndexes == 0..MaxIndex
NoFix == [phase |-> "none", total |-> 0, sold |-> {}, unsold |-> {},
          burn |-> {}, create |-> {}]

\* an empty timeline at time 0
Containers == 1..NumContainers
NoTimeline == [expiryList |-> <<>>, expq |-> <<>>, processed |-> <<>>, now |-> 0]

\* no uplift (lines 35, 38); one heartbeat action and one other action are
\* queued, neither has run; sent is the feeUplift option of the last
\* submission (-1: the submission carried none)
FeeKinds == {"heartbeat", "offer"}
NoFee == [affordableExtraFee |-> 0, apply |-> FALSE, uplift |-> 0,
          attempts |-> [k \in FeeKinds |-> 0],
          last |-> [kind |-> "none", sent |-> -1, outcome |-> "none"]]

\* after comm::init: the thread is at the top of its loop, nobody is
\* connected (data_socket = -1), no shutdown is requested
NoShutdown == [pc |-> "top", data_socket |-> "closed", client |-> "none",
               empty_read_count |-> 0, is_shutting_down |-> FALSE,
               joined |-> FALSE, served |-> 0]

Init ==
    /\ leases = [tx \in TxIds |-> NoRow]
    /\ lastWatchedLedger = 0
    /\ expiryList = <<>>
    /\ instanceExpirationQueue = <<>>
    /\ activeInstanceCount = 0
    /\ leaseUpdateLock = FALSE
    /\ xrplHalted = FALSE
    /\ concurrencyQueue = [processing |-> FALSE, queue |-> <<>>]
    /\ drain = [idx |-> 0, toKeep |-> <<>>]
    /\ schedPc = "idle"
    /\ pruner = [isStartup |-> TRUE, running |-> FALSE]
    /\ acq = [pc |-> "idle", ev |-> NoEvent]
    /\ waiting = {}
    /\ acqLog = [tx |-> 0, token |-> 0, log |-> "none", cleanup |-> FALSE, amount |-> 0]
    /\ sashiDb = <<>>
    /\ uriTokens = [t \in Tokens |-> "host"]
    /\ submitted = {}
    /\ ledgerIndex = 0
    /\ now = StartTime
    /\ failures = 0
    /\ InitHp
    /\ InitHalt
    /\ rq = NoRetry
    /\ tq = NoQueue
    /\ rs = NoRuns
    /\ hb = NoHeartbeat
    /\ lk = NoLocks
    /\ fx = NoFix
    /\ tl = NoTimeline
    /\ fee = NoFee
    /\ ch = NoShutdown

\* acqLog holds the line an acquire handler logged only in the state the
\* handler leaves
ClearLog == acqLog' = [tx |-> 0, token |-> 0, log |-> "none", cleanup |-> FALSE, amount |-> 0]

\* ------------------------------------------------------ ledger events
\* A lease transaction of a tenant reaches the host: it gets the next ledger
\* index, and its hash is modelled by that index.
NewEvent(kind, token, shape) ==
    [kind |-> kind, tx |-> ledgerIndex + 1, token |-> token,
     ledger |-> ledgerIndex + 1, shape |-> shape, moments |-> 1]

\* handleAcquireLease from the lock to createLeaseRecord (lines 1295-1323);
\* owner: the ledger's owner of the token; insertOk: the insert into the
\* leases table succeeded
AcquireFirst(ev, owner, insertOk) ==
    LET v == AcquireValidation(ev, owner)
    IN /\ lastWatchedLedger' = IF v = "invalid_host" THEN lastWatchedLedger ELSE ev.ledger
       /\ IF v # "valid"
          THEN /\ ~concurrencyQueue.processing
               /\ insertOk
               /\ Store(AcquireCatch(MbState, ev, FALSE, 0, FALSE, FALSE))
               /\ acqLog' = [tx |-> ev.tx, token |-> ev.token, log |-> "rejected", cleanup |-> FALSE,
                            amount |-> 0]
               /\ UNCHANGED <<leaseUpdateLock, acq, failures>>
          ELSE IF HasRow(leases, ev.tx) \/ ~insertOk
          THEN /\ ~concurrencyQueue.processing
               /\ failures < MaxFailures
               /\ failures' = failures + 1
               /\ Store(AcquireCatch(MbState, ev, TRUE, 0, TRUE, FALSE))
               /\ acqLog' = [tx |-> ev.tx, token |-> ev.token, log |-> "insert_error",
                            cleanup |-> FALSE, amount |-> 0]
               /\ UNCHANGED <<leaseUpdateLock, acq>>
          ELSE /\ leases' = createLeaseRecord(leases, ev.tx, ev.token, 1)
               /\ leaseUpdateLock' = TRUE
               /\ acq' = [pc |-> "create", ev |-> ev]
               /\ ClearLog
               /\ UNCHANGED <<sashiDb, expiryList, instanceExpirationQueue,
                              concurrencyQueue, activeInstanceCount, failures>>

\* an acquire event: the tenant bought the offered token and
\* handleAcquireLease is called.  With the lock free the handler goes on to
\* its first part at once; otherwise it spins on the lock (line 1295).
AcquireArrive(token, shape, insertOk) ==
    /\ ledgerIndex < MaxEvents
    /\ ledgerIndex' = ledgerIndex + 1
    /\ LET ev == NewEvent("acquire", token, shape)
           bought == uriTokens[token] = "host" /\ shape # "badHost"
       IN /\ uriTokens' = IF bought THEN [uriTokens EXCEPT ![token] = "tenant"]
                          ELSE uriTokens
          /\ IF leaseUpdateLock
             THEN /\ insertOk
                  /\ waiting' = waiting \cup {ev}
                  /\ ClearLog
                  /\ UNCHANGED <<leases, lastWatchedLedger, expiryList,
                                 instanceExpirationQueue, activeInstanceCount,
                                 leaseUpdateLock, concurrencyQueue, acq, sashiDb, failures>>
             ELSE /\ AcquireFirst(ev, IF bought THEN "tenant" ELSE uriTokens[token], insertOk)
                  /\ UNCHANGED waiting
    /\ UNCHANGED <<xrplHalted, drain, schedPc, pruner, submitted, now, hpVars, haltVars, auxVars>>

\* a spinning handleAcquireLease finds the lock free
AcquireBegin(ev, insertOk) ==
    /\ ev \in waiting /\ ev.kind = "acquire"
    /\ ~leaseUpdateLock
    /\ waiting' = waiting \ {ev}
    /\ AcquireFirst(ev, uriTokens[ev.token], insertOk)
    /\ UNCHANGED <<xrplHalted, drain, schedPc, pruner, uriTokens, submitted,
                   ledgerIndex, now, hpVars, haltVars, auxVars>>

\* the acquire event of tx, whose lease was acquired and whose token the
\* tenant still owns, is delivered again: handleAcquireLease runs on the
\* same transaction hash and token
AcquireRedeliver(tx) ==
    /\ HasRow(leases, tx)
    /\ leases[tx].status = ACQUIRED
    /\ uriTokens[leases[tx].container_name] = "tenant"
    /\ ~leaseUpdateLock
    /\ AcquireFirst([kind |-> "acquire", tx |-> tx, token |-> leases[tx].container_name,
                     ledger |-> tx, shape |-> "ok", moments |-> 1],
                    uriTokens[leases[tx].container_name], TRUE)
    /\ UNCHANGED <<xrplHalted, drain, schedPc, pruner, waiting, uriTokens, submitted,
                   ledgerIndex, now, hpVars, haltVars, auxVars>>

\* handleAcquireLease from sashiCli.wait to the finally block (lines 1329-1446)
AcquireCreate(waitLong, cres, createLong, d, d2) ==
    /\ acq.pc = "create"
    /\ ~concurrencyQueue.processing
    /\ LET r == AcquireRest(MbState, acq.ev, now, waitLong, cres, createLong, d, d2)
       IN /\ Store(r.st)
          /\ acqLog' = [tx |-> acq.ev.tx, token |-> acq.ev.token, log |-> r.log,
                        cleanup |-> d2, amount |-> 0]
    /\ leaseUpdateLock' = FALSE
    /\ acq' = [pc |-> "idle", ev |-> NoEvent]
    /\ UNCHANGED <<lastWatchedLedger, xrplHalted, drain, schedPc, pruner, waiting,
                   uriTokens, submitted, ledgerIndex, now, failures, hpVars, haltVars, auxVars>>

\* handleTerminateLease once it holds the lock (lines 1558-1604)
TerminateFirst(ev, d) ==
    /\ ~concurrencyQueue.processing
    /\ acqLog' = [tx |-> ev.tx, token |-> ev.token, cleanup |-> FALSE, amount |-> 0,
                  log |-> IF ev.shape = "badHost" THEN "none"
                          ELSE TerminateLog(MbState, ev, uriTokens[ev.token], xrplHalted)]
    /\ IF ev.shape = "badHost"
       THEN /\ d
            /\ UNCHANGED <<lastWatchedLedger, leases, sashiDb, expiryList,
                           instanceExpirationQueue, concurrencyQueue, activeInstanceCount>>
       ELSE /\ lastWatchedLedger' = ev.ledger
            /\ Store(TerminateBody(MbState, ev, uriTokens[ev.token], xrplHalted, d))

\* a terminate event: handleTerminateLease is called; it runs at once with
\* the lock free and spins on the lock otherwise (line 1557)
TerminateArrive(token, shape, d) ==
    /\ ledgerIndex < MaxEvents
    /\ ledgerIndex' = ledgerIndex + 1
    /\ LET ev == NewEvent("terminate", token, shape)
       IN IF leaseUpdateLock
          THEN /\ d
               /\ waiting' = waiting \cup {ev}
               /\ ClearLog
               /\ UNCHANGED <<leases, lastWatchedLedger, expiryList, instanceExpirationQueue,
                              activeInstanceCount, concurrencyQueue, sashiDb>>
          ELSE /\ TerminateFirst(ev, d)
               /\ UNCHANGED waiting
    /\ UNCHANGED <<leaseUpdateLock, xrplHalted, drain, schedPc, pruner, acq, uriTokens,
                   submitted, now, failures, hpVars, haltVars, auxVars>>

\* a spinning handleTerminateLease finds the lock free
TerminateRun(ev, d) ==
    /\ ev \in waiting /\ ev.kind = "terminate"
    /\ ~leaseUpdateLock
    /\ waiting' = waiting \ {ev}
    /\ TerminateFirst(ev, d)
    /\ UNCHANGED <<leaseUpdateLock, xrplHalted, drain, schedPc, pruner, acq,
                   uriTokens, submitted, ledgerIndex, now, failures, hpVars, haltVars, auxVars>>

\* handleExtendLease (lines 1457-1554): it takes no lock
ExtendLease(token, shape, amount, dbOk) ==
    /\ ledgerIndex < MaxEvents
    /\ ~concurrencyQueue.processing
    /\ dbOk \/ failures < MaxFailures
    /\ LET ev == NewEvent("extend", token, shape)
       IN IF shape = "badHost"
          THEN /\ dbOk
               /\ Store([MbState EXCEPT !.queue =
                            queueAction(@, Callback("extendError", ev.tx, token, amount))])
               /\ acqLog' = [tx |-> ev.tx, token |-> token, log |-> "extend_bad_destination",
                             cleanup |-> FALSE, amount |-> amount]
               /\ UNCHANGED <<lastWatchedLedger, failures>>
          ELSE LET r == ExtendBody(MbState, ev, uriTokens[token], amount, dbOk)
                   used == r.log = "extend_db_error"
               IN /\ dbOk \/ used
                  /\ lastWatchedLedger' = ev.ledger
                  /\ Store(r.st)
                  /\ acqLog' = [tx |-> ev.tx, token |-> token, log |-> r.log,
                                cleanup |-> FALSE, amount |-> amount]
                  /\ failures' = IF used THEN failures + 1 ELSE failures
    /\ ledgerIndex' = ledgerIndex + 1
    /\ UNCHANGED <<leaseUpdateLock, xrplHalted, drain, schedPc, pruner, acq, waiting,
                   uriTokens, submitted, now, hpVars, haltVars, auxVars>>

\* the prune scheduler takes the lock (line 742); the first pass is the
\* start-up one (line 754)
PruneStart ==
    /\ ~pruner.running
    /\ ~leaseUpdateLock
    /\ Queued(concurrencyQueue.queue, "pruneCount") = {}
    /\ leaseUpdateLock' = TRUE
    /\ pruner' = [pruner EXCEPT !.running = TRUE]
    /\ ClearLog
    /\ UNCHANGED <<leases, lastWatchedLedger, expiryList, instanceExpirationQueue,
                   activeInstanceCount, xrplHalted, concurrencyQueue, drain, schedPc, acq,
                   waiting, sashiDb, uriTokens, submitted, ledgerIndex, now, failures,
                   hpVars, haltVars, auxVars>>

\* the pass itself and the release of the lock (lines 743-745)
PruneRun(d) ==
    /\ pruner.running
    /\ ~concurrencyQueue.processing
    /\ Store(pruneOrphanLeases(MbState, pruner.isStartup, now, uriTokens, d))
    /\ pruner' = [isStartup |-> FALSE, running |-> FALSE]
    /\ leaseUpdateLock' = FALSE
    /\ ClearLog
    /\ UNCHANGED <<lastWatchedLedger, xrplHalted, drain, schedPc, acq,
                   waiting, uriTokens, submitted, ledgerIndex, now, failures, hpVars, haltVars, auxVars>>

\* ------------------------------------------------------- clock scheduler
\* #processConcurrencyQueue takes the queue and starts its loop
BeginDrain(st) ==
    /\ StoreWith(st, st.queue # <<>>)
    /\ IF st.queue = <<>>
       THEN /\ schedPc' = "idle"
            /\ drain' = [idx |-> 0, toKeep |-> <<>>]
       ELSE /\ schedPc' = "drain"
            /\ drain' = [idx |-> 1, toKeep |-> <<>>]

\* one tick (lines 760-763): halt check, #expireInstances, then the drain.
\* halted is what #checkLedgersForHalt leaves in #xrplHalted.
SchedulerTick(halted, d) ==
    /\ schedPc = "idle"
    /\ ~concurrencyQueue.processing
    /\ xrplHalted => halted
    /\ xrplHalted' = halted
    /\ LET st1 == CollectExpired(MbState, now)
       IN IF ~halted /\ st1.expq # <<>>
          THEN IF leaseUpdateLock
               THEN /\ Store(st1)
                    /\ schedPc' = "expireWait"
                    /\ UNCHANGED drain
               ELSE BeginDrain(ExpireLoop(st1, st1.expq, uriTokens, d))
          ELSE BeginDrain(st1)
    /\ ClearLog
    /\ UNCHANGED <<lastWatchedLedger, leaseUpdateLock, pruner, acq, waiting,
                   uriTokens, submitted, ledgerIndex, now, failures, hpVars, haltVars, auxVars>>

\* #expireInstances gets the lock it was spinning on (lines 542-559)
SchedulerExpire(d) ==
    /\ schedPc = "expireWait"
    /\ ~leaseUpdateLock
    /\ ~concurrencyQueue.processing
    /\ BeginDrain(IF xrplHalted THEN MbState
                  ELSE ExpireLoop(MbState, instanceExpirationQueue, uriTokens, d))
    /\ ClearLog
    /\ UNCHANGED <<lastWatchedLedger, leaseUpdateLock, xrplHalted, pruner, acq,
                   waiting, uriTokens, submitted, ledgerIndex, now, failures, hpVars, haltVars, auxVars>>

\* one iteration of the loop of #processConcurrencyQueue (lines 320-351); the
\* last one also assigns toKeep to the queue and releases it (lines 353-355)
DrainStep(o) ==
    /\ schedPc = "drain"
    /\ LET action == concurrencyQueue.queue[drain.idx]
           w == [leases |-> leases, active |-> activeInstanceCount,
                 uriTokens |-> uriTokens, submitted |-> submitted]
           r == RunCallback(action.callback, action.refs, w, o)
           retry == ~r.ok /\ action.attempts < action.maxAttempts
           kept == [action EXCEPT !.refs = r.refs, !.attempts = @ + 1]
           toKeep == IF retry THEN Append(drain.toKeep, kept) ELSE drain.toKeep
           last == drain.idx = Len(concurrencyQueue.queue)
       IN /\ failures + r.nfail <= MaxFailures
          /\ (r.nfail = 0) => (o = <<TRUE, TRUE>>)
          /\ failures' = failures + r.nfail
          /\ leases' = r.w.leases
          /\ activeInstanceCount' = r.w.active
          /\ uriTokens' = r.w.uriTokens
          /\ submitted' = r.w.submitted
          /\ IF last
             THEN /\ concurrencyQueue' = [processing |-> FALSE, queue |-> toKeep]
                  /\ drain' = [idx |-> 0, toKeep |-> <<>>]
                  /\ schedPc' = "idle"
             ELSE /\ drain' = [idx |-> drain.idx + 1, toKeep |-> toKeep]
                  /\ UNCHANGED <<concurrencyQueue, schedPc>>
    /\ ClearLog
    /\ UNCHANGED <<lastWatchedLedger, expiryList, instanceExpirationQueue, leaseUpdateLock,
                   xrplHalted, pruner, acq, waiting, sashiDb, ledgerIndex,
                   now, hpVars, haltVars, auxVars>>

\* the grace timer set by #checkLedgersForHalt fires (lines 375-378)
GraceTimeout ==
    /\ xrplHalted
    /\ xrplHalted' = FALSE
    /\ ClearLog
    /\ UNCHANGED <<leases, lastWatchedLedger, expiryList, instanceExpirationQueue,
                   activeInstanceCount, leaseUpdateLock, concurrencyQueue, drain, schedPc,
                   pruner, acq, waiting, sashiDb, uriTokens, submitted,
                   ledgerIndex, now, failures, hpVars, haltVars, auxVars>>

\* the clock
AdvanceTime ==
    /\ now < StartTime + MaxTime
    /\ now' = now + 1
    /\ ClearLog
    /\ UNCHANGED <<leases, lastWatchedLedger, expiryList, instanceExpirationQueue,
                   activeInstanceCount, leaseUpdateLock, xrplHalted, concurrencyQueue,
                   drain, schedPc, pruner, acq, waiting, sashiDb, uriTokens,
                   submitted, ledgerIndex, failures, hpVars, haltVars, auxVars>>

DestroyAnswers == [Tokens -> BOOLEAN]

Next ==
    \/ \E t \in Tokens, sh \in {"ok", "badHost", "badAmount"}, ok \in BOOLEAN :
          AcquireArrive(t, sh, ok)
    \/ \E t \in Tokens, sh \in {"ok", "badHost"}, d \in BOOLEAN : TerminateArrive(t, sh, d)
    \/ \E ev \in waiting, ok \in BOOLEAN : AcquireBegin(ev, ok)
    \/ \E wl \in BOOLEAN, cres \in {"ok", "create_error", "initiate_error"},
          cl \in BOOLEAN, d \in BOOLEAN, d2 \in BOOLEAN : AcquireCreate(wl, cres, cl, d, d2)
    \/ \E ev \in waiting, d \in BOOLEAN : TerminateRun(ev, d)
    \/ \E t \in Tokens, sh \in {"ok", "badHost"}, amount \in Payments, ok \in BOOLEAN :
          ExtendLease(t, sh, amount, ok)
    \/ PruneStart
    \/ \E d \in DestroyAnswers : PruneRun(d)
    \/ \E d \in DestroyAnswers : SchedulerTick(FALSE, d)
    \/ \E d \in DestroyAnswers : SchedulerExpire(d)
    \/ \E o \in BOOLEAN \X BOOLEAN : DrainStep(o)
    \/ AdvanceTime

Spec == Init /\ [][Next]_vars

\* acquisitions and the scheduler with acquire events delivered again
NextRedeliver ==
    \/ \E t \in Tokens, ok \in BOOLEAN : AcquireArrive(t, "ok", ok)
    \/ \E wl \in BOOLEAN, cres \in {"ok", "create_error", "initiate_error"},
          cl \in BOOLEAN, d \in BOOLEAN, d2 \in BOOLEAN : AcquireCreate(wl, cres, cl, d, d2)
    \/ \E tx \in TxIds : AcquireRedeliver(tx)
    \/ \E d \in DestroyAnswers : SchedulerTick(FALSE, d)
    \/ \E o \in BOOLEAN \X BOOLEAN : DrainStep(o)

SpecRedeliver == Init /\ [][NextRedeliver]_vars

\* The message board with a ledger that may halt: a tick whose halt check
\* sets or keeps #xrplHalted, and the grace timer that clears it.
NextHalt ==
    \/ Next
    \/ \E d \in DestroyAnswers : SchedulerTick(TRUE, d)
    \/ GraceTimeout

SpecHalt == Init /\ [][NextHalt]_vars

\* --------------------------------------------------------- halt detection
\* the LEDGER event listener (lines 198-201)
LedgerEvent ==
    /\ lastLedgerTime' = clock
    /\ haltLog' = NoHaltLog
    /\ UNCHANGED <<mbVars, hpVars, auxVars, clock, lastHaltedTime, graceTimeoutRef>>

\* gracePeriod of line 375: haltedDuration * #graceThreshold
GracePeriod(haltedDuration) == (haltedDuration * GraceThresholdPercent) \div 100

\* a pending grace timer that survives a halt
PendingGraceKept(over) == graceTimeoutRef

\* the grace timer after the first test of #checkLedgersForHalt: a halt
\* found while the flag is set clears a pending timer (lines 367-370)
PendingGrace(over) == IF over /\ xrplHalted THEN Undefined ELSE graceTimeoutRef

\* #checkLedgersForHalt (lines 359-381).  With lastLedgerTime undefined the
\* difference is NaN and both comparisons with it are false.
checkLedgersForHalt ==
    LET currentTime == clock
        known == lastLedgerTime # Undefined
        lastLedgerTimeDifference == currentTime - lastLedgerTime
        over == known /\ lastLedgerTimeDifference >= HaltTimeout * MsPerSec
        under == known /\ lastLedgerTimeDifference < HaltTimeout * MsPerSec
        halted == over \/ xrplHalted
        ref == PendingGrace(over)
        schedule == halted /\ under /\ ref = Undefined
    IN /\ xrplHalted' = halted
       /\ lastHaltedTime' = IF over /\ ~xrplHalted THEN lastLedgerTime ELSE lastHaltedTime
       /\ graceTimeoutRef' = IF schedule
                             THEN currentTime + GracePeriod(currentTime - lastHaltedTime)
                             ELSE ref
       /\ haltLog' = [checked |-> TRUE, at |-> currentTime, scheduled |-> schedule]

\* the halt check of a scheduler tick (line 760)
HaltCheck ==
    /\ checkLedgersForHalt
    /\ UNCHANGED <<leases, lastWatchedLedger, expiryList, instanceExpirationQueue,
                   activeInstanceCount, leaseUpdateLock, concurrencyQueue, drain, schedPc,
                   pruner, acq, waiting, acqLog, sashiDb, uriTokens, submitted,
                   ledgerIndex, now, failures, hpVars, auxVars, clock, lastLedgerTime>>

\* the grace timer fires (lines 376-379)
GraceTimer ==
    /\ graceTimeoutRef # Undefined
    /\ clock >= graceTimeoutRef
    /\ xrplHalted' = FALSE
    /\ graceTimeoutRef' = Undefined
    /\ haltLog' = NoHaltLog
    /\ UNCHANGED <<leases, lastWatchedLedger, expiryList, instanceExpirationQueue,
                   activeInstanceCount, leaseUpdateLock, concurrencyQueue, drain, schedPc,
                   pruner, acq, waiting, acqLog, sashiDb, uriTokens, submitted,
                   ledgerIndex, now, failures, hpVars, auxVars, clock, lastLedgerTime,
                   lastHaltedTime>>

\* the wall clock; a timer that is due fires before time goes on
ClockAdvance ==
    /\ clock < MaxClock
    /\ graceTimeoutRef = Undefined \/ clock < graceTimeoutRef
    /\ clock' = clock + ClockStep
    /\ haltLog' = NoHaltLog
    /\ UNCHANGED <<mbVars, hpVars, auxVars, lastLedgerTime, lastHaltedTime, graceTimeoutRef>>

NextDetector ==
    \/ LedgerEvent
    \/ HaltCheck
    \/ GraceTimer
    \/ ClockAdvance

SpecDetector == Init /\ [][NextDetector]_vars

\* ------------------------------------- a queued action and its retries
\* One two-step action of the transaction queue, run by successive drains.
\* A submission is answered "ok" (validated, the call returns), "late" (the
\* call throws on a timeout and the ledger validates the transaction) or
\* "fail" (the call throws, nothing is validated).  A submission that is
\* given a submission ref leaves its hash there; the check before a retry
\* finds it validated after "ok" and "late".  r carries the action with the
\* set of its steps the ledger has validated and the log of the submissions
\* of the attempt: [step, again], again telling that the step was validated
\* before.
Submit(r, step, withRef, outcome) ==
    [r EXCEPT !.log = Append(@, [step |-> step, again |-> step \in r.validated]),
              !.validated = IF outcome = "fail" THEN @ ELSE @ \cup {step},
              !.refs[step] = IF withRef /\ outcome # "fail" THEN "validated" ELSE @]

\* an offer made whatever the row says
OfferDueAlways(r) == TRUE

\* the condition of the offer (line 1267)
OfferDue(r) == r.noLeaseRecord \/ r.status = BURNED

\* recreateLeaseOffer's callback (lines 1229-1277): expireLease is given
\* refs[0], offerLease no submission ref (line 1270).  The result is
\* [threw, r].
RecreateOfferAttempt(r, o1, o2) ==
    LET burn == /\ r.refs[1] # "validated"
                /\ r.noLeaseRecord \/ r.status \in {DESTROYED, FAILED, SASHI_TIMEOUT}
        r1 == IF burn THEN Submit(r, 1, TRUE, o1) ELSE r
        r2 == IF burn /\ ~r.noLeaseRecord THEN [r1 EXCEPT !.status = BURNED] ELSE r1
        offer == /\ r2.refs[2] # "validated"
                 /\ OfferDue(r2)
        r3 == IF offer THEN Submit(r2, 2, FALSE, o2) ELSE r2
    IN IF burn /\ o1 # "ok" THEN [threw |-> TRUE, r |-> r1]
       ELSE IF offer /\ o2 # "ok" THEN [threw |-> TRUE, r |-> r3]
       ELSE [threw |-> FALSE,
             r |-> IF offer /\ ~r.noLeaseRecord THEN [r3 EXCEPT !.status = "none"] ELSE r3]

\* the acquire handler's queued action (lines 1368-1409): updateRegInfo with
\* refs[0], acquireSuccess with refs[1], then the row becomes Acquired
AcquireSuccessAttempt(r, o1, o2) ==
    LET first == r.refs[1] # "validated"
        r1 == IF first THEN Submit(r, 1, TRUE, o1) ELSE r
        second == r1.refs[2] # "validated"
        r2 == IF second THEN Submit(r1, 2, TRUE, o2) ELSE r1
    IN IF first /\ o1 # "ok" THEN [threw |-> TRUE, r |-> r1]
       ELSE IF second /\ o2 # "ok" THEN [threw |-> TRUE, r |-> r2]
       ELSE [threw |-> FALSE, r |-> IF second THEN [r2 EXCEPT !.status = ACQUIRED] ELSE r2]

\* an action is queued (lines 302-314)
RetryEnqueue(kind, noLeaseRecord, status) ==
    /\ rq.state = "none"
    /\ kind = "acquireSuccess" => ~noLeaseRecord /\ status = ACQUIRING
    /\ rq' = [NoRetry EXCEPT !.state = "queued", !.kind = kind,
                             !.noLeaseRecord = noLeaseRecord, !.status = status]
    /\ UNCHANGED <<mbVars, hpVars, haltVars, tq, rs, hb, lk, fx, tl, fee, ch>>

SubmitOutcomes == {"ok", "late", "fail"}

\* a drain runs the action (lines 320-349)
RetryAttempt(o1, o2) ==
    /\ rq.state = "queued"
    /\ LET r0 == [rq EXCEPT !.log = <<>>]
           res == IF rq.kind = "recreateLeaseOffer" THEN RecreateOfferAttempt(r0, o1, o2)
                  ELSE AcquireSuccessAttempt(r0, o1, o2)
       IN rq' = IF ~res.threw THEN [res.r EXCEPT !.state = "done"]
                ELSE IF rq.attempts < MaxAttempts
                THEN [res.r EXCEPT !.attempts = @ + 1]
                ELSE [res.r EXCEPT !.state = "dropped"]
    /\ UNCHANGED <<mbVars, hpVars, haltVars, tq, rs, hb, lk, fx, tl, fee, ch>>

NextRetry ==
    \/ \E k \in {"recreateLeaseOffer", "acquireSuccess"}, n \in BOOLEAN,
          st \in {ACQUIRING, DESTROYED, FAILED, SASHI_TIMEOUT, BURNED} : RetryEnqueue(k, n, st)
    \/ \E o1 \in SubmitOutcomes, o2 \in SubmitOutcomes : RetryAttempt(o1, o2)

SpecRetry == Init /\ [][NextRetry]_vars

\* ------------------------------------------ the transaction queue's lock
\* #acquireConcurrencyQueue tests the flag inside a promise and sets it
\* after the await (lines 285-295): the test and the set are two steps.
\* tq.dpc is the drain's position, tq.epc[e] that of enqueuer e; result and
\* runs record what became of each action and how often its callback ran,
\* limit the maxAttempts it was queued with.

\* the two ways actions are queued: #queueAction's defaults (line 302) and
\* the heartbeat's retry count and delay (lines 36-37, 651)
ActionKinds == {[maxAttempts |-> MaxAttempts, delay |-> 0],
                [maxAttempts |-> HeartbeatRetryCount, delay |-> HeartbeatRetryDelay]}

ShouldRetryOnceMore(action) == action.attempts <= action.maxAttempts

\* line 327
ShouldRetry(action) == action.attempts < action.maxAttempts

\* #queueAction, line 303: the flag is found free
QueueCheck(e) ==
    /\ tq.epc[e] = "idle"
    /\ tq.nextId <= MaxActions
    /\ ~tq.processing
    /\ tq' = [tq EXCEPT !.epc[e] = "ready"]
    /\ UNCHANGED <<mbVars, hpVars, haltVars, rq, rs, hb, lk, fx, tl, fee, ch>>

\* line 294
QueueSet(e) ==
    /\ tq.epc[e] = "ready"
    /\ tq' = [tq EXCEPT !.epc[e] = "held", !.processing = TRUE]
    /\ UNCHANGED <<mbVars, hpVars, haltVars, rq, rs, hb, lk, fx, tl, fee, ch>>

\* lines 305-313: push and release
QueuePush(e, kind) ==
    /\ tq.epc[e] = "held"
    /\ tq.nextId <= MaxActions
    /\ tq' = [tq EXCEPT !.epc[e] = "idle", !.processing = FALSE,
                        !.queue = Append(@, [id |-> tq.nextId, attempts |-> 0,
                                             maxAttempts |-> kind.maxAttempts,
                                             delay |-> kind.delay]),
                        !.result[tq.nextId] = "queued",
                        !.limit[tq.nextId] = kind.maxAttempts,
                        !.nextId = @ + 1]
    /\ UNCHANGED <<mbVars, hpVars, haltVars, rq, rs, hb, lk, fx, tl, fee, ch>>

\* #processConcurrencyQueue, line 317: the flag is found free
QueueDrainCheck ==
    /\ tq.dpc = "idle"
    /\ ~tq.processing
    /\ tq' = [tq EXCEPT !.dpc = "ready"]
    /\ UNCHANGED <<mbVars, hpVars, haltVars, rq, rs, hb, lk, fx, tl, fee, ch>>

\* the end of the loop (lines 352-355), reached in the step that finds no
\* further element
QueueDrainEnd(q) == [q EXCEPT !.queue = q.toKeep, !.processing = FALSE,
                             !.dpc = "idle", !.idx = 0, !.toKeep = <<>>]

\* lines 294, 319: the flag is set and the loop begins
QueueDrainSet ==
    /\ tq.dpc = "ready"
    /\ LET q == [tq EXCEPT !.processing = TRUE, !.dpc = "run", !.idx = 1,
                           !.toKeep = <<>>]
       IN tq' = IF Len(tq.queue) = 0 THEN QueueDrainEnd(q) ELSE q
    /\ UNCHANGED <<mbVars, hpVars, haltVars, rq, rs, hb, lk, fx, tl, fee, ch>>

\* one turn of the loop (lines 320-350): the callback of the element at idx
\* of the live array succeeds or throws
QueueDrainRun(ok) ==
    /\ tq.dpc = "run"
    /\ tq.idx <= Len(tq.queue)
    /\ LET action == tq.queue[tq.idx]
           again == [action EXCEPT !.attempts = @ + 1]
           q1 == [tq EXCEPT !.runs[action.id] = @ + 1, !.idx = @ + 1]
           q2 == IF ok THEN [q1 EXCEPT !.result[action.id] = "done"]
                 ELSE IF ~ShouldRetry(action)
                 THEN [q1 EXCEPT !.result[action.id] = "dropped"]
                 ELSE IF action.delay > 0
                 THEN [q1 EXCEPT !.timers = @ \cup {again}]
                 ELSE [q1 EXCEPT !.toKeep = Append(@, again)]
       IN tq' = IF q2.idx > Len(q2.queue) THEN QueueDrainEnd(q2) ELSE q2
    /\ UNCHANGED <<mbVars, hpVars, haltVars, rq, rs, hb, lk, fx, tl, fee, ch>>

\* the interval of a delayed retry (lines 337-343) finds the flag free and
\* puts the action back
QueueTimer(action) ==
    /\ action \in tq.timers
    /\ ~tq.processing
    /\ tq' = [tq EXCEPT !.timers = @ \ {action}, !.queue = Append(@, action)]
    /\ UNCHANGED <<mbVars, hpVars, haltVars, rq, rs, hb, lk, fx, tl, fee, ch>>

NextQueue ==
    \/ \E e \in Enqueuers : QueueCheck(e) \/ QueueSet(e)
    \/ \E e \in Enqueuers, kind \in ActionKinds : QueuePush(e, kind)
    \/ QueueDrainCheck
    \/ QueueDrainSet
    \/ \E ok \in BOOLEAN : QueueDrainRun(ok)
    \/ \E action \in tq.timers : QueueTimer(action)

SpecQueue == Init /\ [][NextQueue]_vars

\* ------------------------------------------------- restart and catch-up
\* The handlers as functions of a world w = [st, uriTokens, submitted], every
\* call to the daemon and every submission succeeding, and the queue drained
\* after each event.

\* what the ledger does with a transaction of the catch-up's terminate branch
\* (lines 1177-1192) and which replies it keeps (checked at lines 1047-1066)
LedgerEffect(cb, w) ==
    CASE cb.kind = "expireLease" -> [w EXCEPT !.uriTokens[cb.token] = "none"]
      [] cb.kind = "offerLease" -> [w EXCEPT !.uriTokens[cb.token] = "host"]
      [] cb.kind \in {"extendSuccess", "extendError"} ->
            [w EXCEPT !.submitted = @ \cup {<<cb.kind, cb.tx>>}]
      [] OTHER -> w

\* #processConcurrencyQueue over the whole queue, every submission accepted;
\* an action that throws all the same is dropped in the end
RECURSIVE DrainAll(_)
DrainAll(w) ==
    IF w.st.queue = <<>> THEN w
    ELSE LET action == Head(w.st.queue)
             r == RunCallback(action.callback, action.refs,
                              [leases |-> w.st.leases, active |-> w.st.active,
                               uriTokens |-> w.uriTokens, submitted |-> w.submitted],
                              <<TRUE, TRUE>>)
             w1 == [w EXCEPT !.st.queue = Tail(@), !.st.leases = r.w.leases,
                             !.st.active = r.w.active, !.uriTokens = r.w.uriTokens,
                             !.submitted = r.w.submitted]
         IN DrainAll(IF r.ok THEN LedgerEffect(action.callback, w1) ELSE w1)

\* the handler of a running message board for the event ev
LiveEvent(w, ev) ==
    LET owner == w.uriTokens[ev.token]
        st1 == CASE ev.kind = "acquire" ->
                     IF AcquireValidation(ev, owner) # "valid"
                     THEN AcquireCatch(w.st, ev, FALSE, 0, FALSE, FALSE)
                     ELSE AcquireRest([w.st EXCEPT !.leases =
                                          createLeaseRecord(@, ev.tx, ev.token, 1)],
                                      ev, StartTime, FALSE, "ok", FALSE, TRUE, TRUE).st
                 [] ev.kind = "extend" -> ExtendBody(w.st, ev, owner, ev.amount, TRUE).st
                 [] OTHER -> TerminateBody(w.st, ev, owner, FALSE, TRUE)
    IN DrainAll([w EXCEPT !.st = st1])

\* init, lines 116-118: the expiry list from the Acquired and Extended rows
RECURSIVE RebuildExpiryList(_, _)
RebuildExpiryList(L, rows) ==
    IF rows = <<>> THEN <<>>
    ELSE LET lease == Head(rows)
             rest == RebuildExpiryList(L, Tail(rows))
         IN IF lease.status \in {ACQUIRED, EXTENDED}
            THEN <<[txHash |-> lease.tx_hash, containerName |-> lease.container_name,
                    expiryTimestamp |-> getExpiryTimestamp(lease.timestamp,
                                                           lease.life_moments)]>> \o rest
            ELSE rest

CatchupSkipsNever(w, trx, checkpoint) == FALSE

\* lines 1046-1066: the transaction at the checkpoint was answered already
CatchupSkips(w, trx, checkpoint) ==
    /\ trx.ledger = checkpoint
    /\ \E k \in {"acquireSuccess", "acquireError", "extendSuccess", "extendError",
                 "refundTenant"} : <<k, trx.tx>> \in w.submitted

\* one turn of the loop of #catchupMissedLeases (lines 1037-1205); rows are
\* the lease rows read before the loop (line 1018)
CatchupTrx(w, trx, rows, checkpoint) ==
    LET owner == w.uriTokens[trx.token]
        Active(l) == l.container_name = trx.token /\ l.status \in {ACQUIRED, EXTENDED}
        active == SelectSeq(rows, Active) # <<>>
        refund == Callback("refundTenant", trx.tx, trx.token, TRUE)
        idx == findExpiryItem(w.st.expiryList, trx.token)
    IN IF CatchupSkips(w, trx, checkpoint) THEN w
       ELSE CASE trx.kind = "acquire" ->
                   IF findLeaseIndex(rows, trx.token) = 0 /\ owner = "tenant"
                   THEN [w EXCEPT !.st = [recreateLeaseOffer(w.st, trx.token, TRUE)
                                             EXCEPT !.queue = queueAction(@, refund)]]
                   ELSE w
              [] trx.kind = "extend" ->
                   IF active /\ owner = "tenant"
                   THEN [w EXCEPT !.st.queue = queueAction(@, refund)]
                   ELSE w
              [] OTHER ->
                   IF owner # "tenant" THEN w
                   ELSE IF active
                   THEN IF idx = 0 THEN w
                        ELSE [w EXCEPT !.st = expireInstance(
                                 [w.st EXCEPT !.expiryList = removeFromExpiryList(@, trx.token)],
                                 w.st.expiryList[idx], owner, TRUE)]
                   ELSE [w EXCEPT !.st.queue = queueAction(queueAction(@,
                                     Callback("expireLease", 0, trx.token, 0)),
                                     Callback("offerLease", 0, trx.token, 0))]

RECURSIVE CatchupLoop(_, _, _, _)
CatchupLoop(w, transactions, rows, checkpoint) ==
    IF transactions = <<>> THEN w
    ELSE CatchupLoop(CatchupTrx(w, Head(transactions), rows, checkpoint),
                     Tail(transactions), rows, checkpoint)

\* init (lines 111-129) on the stores the stopped run left: nothing is in
\* memory, the expiry list is rebuilt, the transactions from the checkpoint
\* on are caught up and the count is set from the expiry list
RestartWorld(w, hist, checkpoint) ==
    LET rows == getLeaseRecords(w.st.leases)
        w0 == [w EXCEPT !.st.expiryList = RebuildExpiryList(w.st.leases, rows),
                        !.st.expq = <<>>, !.st.queue = <<>>]
        Later(e) == e.ledger >= checkpoint
        w1 == CatchupLoop(w0, SelectSeq(hist, Later), rows, checkpoint)
    IN [w1 EXCEPT !.st.active = Len(w1.st.expiryList)]

\* a tenant's transaction reaches the ledger, the same in both runs (an
\* acquire buys a token the host offers): the uninterrupted run handles it,
\* the other run too unless it is down
RunEvent(kind, token, shape, amount) ==
    /\ Len(rs.hist) < MaxEvents
    /\ rs.a.uriTokens[token] = rs.b.uriTokens[token]
    /\ kind = "acquire" => rs.a.uriTokens[token] = "host"
    /\ LET n == Len(rs.hist) + 1
           ev == [kind |-> kind, tx |-> n, token |-> token, ledger |-> n,
                  shape |-> shape, moments |-> 1, amount |-> amount]
           Buy(w) == IF kind = "acquire" /\ shape = "ok" /\ w.uriTokens[token] = "host"
                     THEN [w EXCEPT !.uriTokens[token] = "tenant"] ELSE w
       IN rs' = [rs EXCEPT !.hist = Append(@, ev),
                           !.a = LiveEvent(Buy(rs.a), ev),
                           !.b = IF rs.up THEN LiveEvent(Buy(rs.b), ev) ELSE Buy(rs.b),
                           !.lwl = IF rs.up THEN n ELSE @,
                           !.missed = @ \/ ~rs.up]
    /\ UNCHANGED <<mbVars, hpVars, haltVars, rq, tq, hb, lk, fx, tl, fee, ch>>

\* the message board is stopped
RunStop ==
    /\ rs.up
    /\ rs.restarts < MaxRestarts
    /\ rs' = [rs EXCEPT !.up = FALSE]
    /\ UNCHANGED <<mbVars, hpVars, haltVars, rq, tq, hb, lk, fx, tl, fee, ch>>

\* and started again: init, then the first drain of the queue
RunRestart ==
    /\ ~rs.up
    /\ rs' = [rs EXCEPT !.up = TRUE, !.restarts = @ + 1,
                        !.b = DrainAll(RestartWorld(rs.b, rs.hist, rs.lwl)),
                        !.lwl = IF rs.hist = <<>> THEN @ ELSE Len(rs.hist)]
    /\ UNCHANGED <<mbVars, hpVars, haltVars, rq, tq, hb, lk, fx, tl, fee, ch>>

NextRestart ==
    \/ \E kind \in {"acquire", "extend", "terminate"}, t \in Tokens,
          sh \in {"ok", "badAmount"}, amount \in Payments : RunEvent(kind, t, sh, amount)
    \/ RunStop
    \/ RunRestart

SpecRestart == Init /\ [][NextRestart]_vars

\* ------------------------------------------------------------- heartbeat
\* hb.moment is the ledger's current moment, hb.last lastHeartbeatMoment,
\* hb.accepted the heartbeats the ledger validated as <<moment, action>>,
\* hb.log the submissions of the action that just ran as [moment, id, vote].
\* A submission is answered as in Submit: "ok", "late" (the call throws, the
\* ledger validates), "fail"; a heartbeat with a vote may also be answered
\* "invalid" (VOTE_VALIDATION_ERR).

\* line 584
HeartbeatDue(moment, last) ==
    last = 0 \/ (moment % HeartbeatFreq = 0 /\ moment # last)

\* one heartbeat transaction (lines 610-612, 634-635); r = [hb, id, threw, sent]
SubmitHeartbeat(r, vote, outcome) ==
    LET taken == outcome \in {"ok", "late"}
        h1 == [r.hb EXCEPT
                 !.log = Append(@, [moment |-> r.hb.moment, id |-> r.id, vote |-> vote]),
                 !.accepted = IF taken THEN @ \cup {<<r.hb.moment, r.id>>} ELSE @,
                 !.actions[r.id].ref = IF taken THEN "validated" ELSE @,
                 !.last = IF outcome = "ok" THEN r.hb.moment ELSE @]
    IN [r EXCEPT !.hb = h1,
                 !.threw = outcome \in {"late", "fail"},
                 !.sent = @ \/ outcome = "ok"]

\* the loop over the votes (lines 608-626)
RECURSIVE VoteLoop(_, _)
VoteLoop(r, outcomes) ==
    IF outcomes = <<>> \/ r.threw THEN r
    ELSE VoteLoop(SubmitHeartbeat(r, TRUE, Head(outcomes)), Tail(outcomes))

\* the callback #sendHeartbeat queues (lines 567-650)
HeartbeatCallback(h, id, votes, empty) ==
    LET r0 == [hb |-> h, id |-> id, threw |-> FALSE, sent |-> FALSE]
    IN IF h.actions[id].ref = "validated" \/ ~HeartbeatDue(h.moment, h.last)
       THEN r0
       ELSE LET r1 == VoteLoop(r0, votes)
            IN IF r1.threw \/ r1.sent THEN r1
               ELSE SubmitHeartbeat(r1, FALSE, empty)

\* #sendHeartbeat is called by the scheduler or by the start-up timer
HeartbeatEnqueue(id) ==
    /\ hb.actions[id].state = "none"
    /\ \A j \in HeartbeatIds : j < id => hb.actions[j].state # "none"
    /\ hb' = [hb EXCEPT !.actions[id].state = "queued", !.log = <<>>]
    /\ UNCHANGED <<mbVars, hpVars, haltVars, rq, tq, rs, lk, fx, tl, fee, ch>>

\* a drain runs the action; a failed one waits for its retry delay
HeartbeatRun(id, votes, empty) ==
    /\ hb.actions[id].state = "queued"
    /\ LET r == HeartbeatCallback([hb EXCEPT !.log = <<>>], id, votes, empty)
           a == r.hb.actions[id]
       IN hb' = [r.hb EXCEPT !.actions[id] =
                    IF ~r.threw THEN [a EXCEPT !.state = "done"]
                    ELSE IF ShouldRetry([attempts |-> a.attempts,
                                         maxAttempts |-> HeartbeatRetryCount])
                    THEN [a EXCEPT !.state = "delayed", !.attempts = @ + 1]
                    ELSE [a EXCEPT !.state = "dropped"]]
    /\ UNCHANGED <<mbVars, hpVars, haltVars, rq, tq, rs, lk, fx, tl, fee, ch>>

\* the retry delay is over (lines 337-343)
HeartbeatRetry(id) ==
    /\ hb.actions[id].state = "delayed"
    /\ hb' = [hb EXCEPT !.actions[id].state = "queued", !.log = <<>>]
    /\ UNCHANGED <<mbVars, hpVars, haltVars, rq, tq, rs, lk, fx, tl, fee, ch>>

\* the ledger enters the next moment
NextMoment ==
    /\ hb.moment < MaxMoment
    /\ hb' = [hb EXCEPT !.moment = @ + 1, !.log = <<>>]
    /\ UNCHANGED <<mbVars, hpVars, haltVars, rq, tq, rs, lk, fx, tl, fee, ch>>

VoteOutcomes == {"ok", "late", "invalid", "fail"}

VoteSeqs == UNION {[1..n -> VoteOutcomes] : n \in 0..MaxVotes}

NextHeartbeat ==
    \/ \E id \in HeartbeatIds : HeartbeatEnqueue(id) \/ HeartbeatRetry(id)
    \/ \E id \in HeartbeatIds, votes \in VoteSeqs, empty \in SubmitOutcomes :
          HeartbeatRun(id, votes, empty)
    \/ NextMoment

SpecHeartbeat == Init /\ [][NextHeartbeat]_vars

\* ------------------------------------------------- the two locks together
\* lk.pc[p]: "out" (not running), "wait" (spinning in an acquire function),
\* "checked" (the spin loop saw the flag false and resolved; the flag is not
\* set yet), "section" (inside the lease-update section), "push" (inside
\* #queueAction, holding the queue lock), "caught" (the section's body threw;
\* the catch / finally path runs), "between" (the scheduler finished
\* #expireInstances and is about to drain), "drain" (inside
\* #processConcurrencyQueue, holding the queue lock).

\* a queued callback that took the lease-update lock would be a call site of
\* the lease lock under the queue lock
CallSiteReversed(p, lock) ==
    \/ lock = "lease" /\ lk.pc[p] \in {"out", "drain"}
    \/ lock = "queue" /\ lk.pc[p] = "section" /\ lk.pushes[p] < MaxPushes
    \/ lock = "queue" /\ lk.pc[p] = "between"

\* where the code calls an acquire function: the lease-update lock at the
\* start of the four executions; the queue lock from inside the section
\* (#queueAction, recreateLeaseOffer) and, in the scheduler, after the
\* section (#processConcurrencyQueue); no queued callback takes a lock
CallSite(p, lock) ==
    \/ lock = "lease" /\ lk.pc[p] = "out"
    \/ lock = "queue" /\ lk.pc[p] = "section" /\ lk.pushes[p] < MaxPushes
    \/ lock = "queue" /\ lk.pc[p] = "between"

LockFlag(lock) == IF lock = "lease" THEN lk.lease ELSE lk.queue

\* the call of #acquireLeaseUpdateLock or #acquireConcurrencyQueue
LockCall(p, lock) ==
    /\ CallSite(p, lock)
    /\ lk' = [lk EXCEPT !.pc[p] = "wait", !.want[p] = lock]
    /\ UNCHANGED <<mbVars, hpVars, haltVars, rq, tq, rs, hb, fx, tl, fee, ch>>

\* the while loop of the acquire function finds the flag false and resolves
LockCheck(p) ==
    /\ lk.pc[p] = "wait"
    /\ ~LockFlag(lk.want[p])
    /\ lk' = [lk EXCEPT !.pc[p] = "checked"]
    /\ UNCHANGED <<mbVars, hpVars, haltVars, rq, tq, rs, hb, fx, tl, fee, ch>>

\* the statement after the awaited promise sets the flag
LockSet(p) ==
    /\ lk.pc[p] = "checked"
    /\ lk' = [lk EXCEPT
                !.lease = IF lk.want[p] = "lease" THEN TRUE ELSE @,
                !.queue = IF lk.want[p] = "queue" THEN TRUE ELSE @,
                !.held[p] = @ \cup {lk.want[p]},
                !.want[p] = "none",
                !.pc[p] = IF lk.want[p] = "lease" THEN "section"
                          ELSE IF "lease" \in lk.held[p] THEN "push"
                          ELSE "drain"]
    /\ UNCHANGED <<mbVars, hpVars, haltVars, rq, tq, rs, hb, fx, tl, fee, ch>>

\* the body of the section throws: the handlers' catch blocks and the
\* try / catch inside the loop of #expireInstances take over
SectionThrow(p) ==
    /\ lk.pc[p] = "section"
    /\ lk' = [lk EXCEPT !.pc[p] = "caught"]
    /\ UNCHANGED <<mbVars, hpVars, haltVars, rq, tq, rs, hb, fx, tl, fee, ch>>

\* #releaseConcurrencyQueue after the push or at the end of the drain;
\* #releaseLeaseUpdateLock in the finally blocks of the handlers and of the
\* pruner and after the loop of #expireInstances
LockRelease(p, lock) ==
    /\ \/ lock = "queue" /\ lk.pc[p] \in {"push", "drain"}
       \/ lock = "lease" /\ lk.pc[p] \in {"section", "caught"}
    /\ lk' = [lk EXCEPT
                !.lease = IF lock = "lease" THEN FALSE ELSE @,
                !.queue = IF lock = "queue" THEN FALSE ELSE @,
                !.held[p] = @ \ {lock},
                !.pushes[p] = IF lock = "lease" THEN 0
                              ELSE IF lk.pc[p] = "push" THEN @ + 1 ELSE @,
                !.pc[p] = IF lock = "queue"
                          THEN (IF lk.pc[p] = "push" THEN "section" ELSE "out")
                          ELSE (IF p = "expire" THEN "between" ELSE "out")]
    /\ UNCHANGED <<mbVars, hpVars, haltVars, rq, tq, rs, hb, fx, tl, fee, ch>>

LockNames == {"lease", "queue"}

NextLocks ==
    \/ \E p \in LockProcs, lock \in LockNames : LockCall(p, lock)
    \/ \E p \in LockProcs : LockCheck(p)
    \/ \E p \in LockProcs : LockSet(p)
    \/ \E p \in LockProcs : SectionThrow(p)
    \/ \E p \in LockProcs, lock \in LockNames : LockRelease(p, lock)

SpecLocks == Init /\ [][NextLocks]_vars

\* an execution that started keeps running: every step but the start of a
\* handler is taken when it stays possible, and a spinning acquire that finds
\* the flag false again and again gets through
LockProgress(p) ==
    \/ LockCall(p, "queue")
    \/ LockSet(p)
    \/ \E lock \in LockNames : LockRelease(p, lock)

SpecLocksFair ==
    /\ SpecLocks
    /\ \A p \in LockProcs : WF_vars(LockProgress(p)) /\ SF_vars(LockCheck(p))

\* ------------------------------------------------------ slot-count fix
\* #fixLeaseInconsistencies (lines 383-484).  fx.sold holds the lease indexes
\* of the tokens of the Acquired and Extended rows, fx.unsold the lease
\* indexes of the host's own lease tokens.

\* the indexes in increasing order (the sort of line 431)
SortIndexes(S) ==
    LET RECURSIVE Sorted(_)
        Sorted(T) == IF T = {} THEN <<>> ELSE <<Min(T)>> \o Sorted(T \ {Min(T)})
    IN Sorted(S)

\* the indexes of the sold leases getVacantLeaseIndexes adds to `acquired`
\* (lines 408-418): the function is declared with `function` inside the
\* method and called without a receiver, so `this` is undefined in it, the
\* lookup this.hostClient.getLeaseByIndex throws for every row, and the
\* empty catch swallows it
SoldIndexesFound(sold) == {}

\* the while loop of lines 419-424, from index i
RECURSIVE VacantLoop(_, _, _, _)
VacantLoop(acquired, vacant, i, total) ==
    IF Cardinality(vacant) + Cardinality(acquired) >= total THEN vacant
    ELSE VacantLoop(acquired,
                    IF i \in acquired THEN vacant ELSE vacant \cup {i},
                    i + 1, total)

\* getVacantLeaseIndexes(false) (lines 405-426)
getVacantLeaseIndexes(sold, unsold, total) ==
    VacantLoop(unsold \cup SoldIndexesFound(sold), {}, 0, total)

\* the tokens to burn (line 431): the sorted unsold tokens from position
\* total - sold on
TokensToBurn(sold, unsold, total) ==
    LET sorted == SortIndexes(unsold)
        from == total - Cardinality(sold)
    IN {sorted[j] : j \in (from + 1)..Len(sorted)}

\* the startup reads the configuration, the rows and the ledger
FixRead(total, sold, unsold) ==
    /\ fx.phase \in {"none", "fixed"}
    /\ sold \cap unsold = {}
    /\ fx' = [NoFix EXCEPT !.phase = "read", !.total = total,
                           !.sold = sold, !.unsold = unsold]
    /\ UNCHANGED <<mbVars, hpVars, haltVars, rq, tq, rs, hb, lk, tl, fee, ch>>

\* lines 399-480: what is queued for burning and for offering
FixRun ==
    /\ fx.phase = "read"
    /\ LET soldCount == Cardinality(fx.sold)
           unsoldCount == Cardinality(fx.unsold)
           checked == fx.total # 0 /\ soldCount <= fx.total
                      /\ soldCount + unsoldCount # fx.total
           tooMany == fx.total < soldCount + unsoldCount
       IN fx' = [fx EXCEPT
                   !.phase = "fixed",
                   !.burn = IF checked /\ tooMany
                            THEN TokensToBurn(fx.sold, fx.unsold, fx.total)
                            ELSE {},
                   !.create = IF checked /\ ~tooMany
                              THEN getVacantLeaseIndexes(fx.sold, fx.unsold, fx.total)
                              ELSE {}]
    /\ UNCHANGED <<mbVars, hpVars, haltVars, rq, tq, rs, hb, lk, tl, fee, ch>>

NextFix ==
    \/ \E total \in 0..MaxTotal, sold \in SUBSET LeaseIndexes,
          unsold \in SUBSET LeaseIndexes : FixRead(total, sold, unsold)
    \/ FixRun

SpecFix == Init /\ [][NextFix]_vars

\* ------------------------------------------- the timeline of several leases
\* tl.expiryList and tl.expq are this.expiryList and
\* #instanceExpirationQueue; tl.processed holds the items in the order in
\* which the last tick handed them to #expireInstance.

\* the acquire handler adds the entry of a new instance (line 1364)
TimelineAdd(c, moments) ==
    /\ \A i \in 1..Len(tl.expiryList) : tl.expiryList[i].containerName # c
    /\ \A i \in 1..Len(tl.expq) : tl.expq[i].containerName # c
    /\ tl' = [tl EXCEPT
                !.expiryList = addToExpiryList(@, c, c, getExpiryTimestamp(tl.now, moments)),
                !.processed = <<>>]
    /\ UNCHANGED <<mbVars, hpVars, haltVars, rq, tq, rs, hb, lk, fx, fee, ch>>

\* the extend handler moves the entry's expiry in place (lines 1500-1504)
TimelineExtend(c, moments) ==
    /\ \E i \in 1..Len(tl.expiryList) :
          /\ tl.expiryList[i].containerName = c
          /\ tl.expiryList[i].expiryTimestamp <= MaxTick
          /\ tl' = [tl EXCEPT
                      !.expiryList[i].expiryTimestamp = getExpiryTimestamp(@, moments),
                      !.processed = <<>>]
    /\ UNCHANGED <<mbVars, hpVars, haltVars, rq, tq, rs, hb, lk, fx, fee, ch>>

\* #expireInstances (lines 529-563): the expired entries join the queue;
\* when the ledger is not halted the loop takes the queue's items in order
TimelineTick(halted) ==
    /\ LET st1 == CollectExpired(tl, tl.now)
       IN tl' = IF halted \/ st1.expq = <<>>
                THEN [st1 EXCEPT !.processed = <<>>]
                ELSE [st1 EXCEPT !.processed = st1.expq, !.expq = <<>>]
    /\ UNCHANGED <<mbVars, hpVars, haltVars, rq, tq, rs, hb, lk, fx, fee, ch>>

TimelineAdvance ==
    /\ tl.now < MaxTick
    /\ tl' = [tl EXCEPT !.now = @ + 1, !.processed = <<>>]
    /\ UNCHANGED <<mbVars, hpVars, haltVars, rq, tq, rs, hb, lk, fx, fee, ch>>

NextTimeline ==
    \/ \E c \in Containers, m \in 1..MaxMoments : TimelineAdd(c, m)
    \/ \E c \in Containers, m \in 1..MaxMoments : TimelineExtend(c, m)
    \/ \E halted \in BOOLEAN : TimelineTick(halted)
    \/ TimelineAdvance

SpecTimeline == Init /\ [][NextTimeline]_vars

\* ------------------------------------------------------- the fee uplift
\* maxAttempts of the queued actions: the heartbeat is queued with
\* #heartbeatRetryCount (line 650), the others with the default (line 302)
FeeMaxAttempts(kind) == IF kind = "heartbeat" THEN HeartbeatRetryCount ELSE MaxAttempts

\* #prepareHostClientFunctionOptions (lines 275-282)
prepareHostClientFunctionOptions == IF fee.apply THEN fee.uplift ELSE -1

\* the options of a callback's submission: the heartbeat's submissions
\* spread #prepareHostClientFunctionOptions() into them (lines 610, 634),
\* no other callback does
SubmissionUplift(kind) ==
    IF kind = "heartbeat" THEN prepareHostClientFunctionOptions ELSE -1

\* the configuration is read
FeeConfigure(f) ==
    /\ fee.last.kind = "none"
    /\ fee.affordableExtraFee = 0
    /\ f > 0
    /\ fee' = [fee EXCEPT !.affordableExtraFee = f]
    /\ UNCHANGED <<mbVars, hpVars, haltVars, rq, tq, rs, hb, lk, fx, tl, ch>>

\* one iteration of the drain's loop (lines 320-351) on the action of the
\* kind; an action that succeeded or was dropped is followed by a new one
FeeRun(kind, outcome) ==
    /\ LET attempts == fee.attempts[kind]
           maxAttempts == FeeMaxAttempts(kind)
           last == [kind |-> kind, sent |-> SubmissionUplift(kind), outcome |-> outcome]
       IN fee' =
            IF outcome = "ok"
            THEN [fee EXCEPT !.apply = FALSE, !.uplift = 0,
                             !.attempts[kind] = 0, !.last = last]
            ELSE IF attempts < maxAttempts
            THEN IF fee.affordableExtraFee > 0 /\ outcome = "TOOK_LONG"
                 THEN [fee EXCEPT
                         !.apply = TRUE,
                         !.uplift = (fee.affordableExtraFee * (attempts + 1)) \div maxAttempts,
                         !.attempts[kind] = attempts + 1, !.last = last]
                 ELSE [fee EXCEPT !.attempts[kind] = attempts + 1, !.last = last]
            ELSE [fee EXCEPT !.attempts[kind] = 0, !.last = last]
    /\ UNCHANGED <<mbVars, hpVars, haltVars, rq, tq, rs, hb, lk, fx, tl, ch>>

NextFee ==
    \/ \E f \in 1..MaxExtraFee : FeeConfigure(f)
    \/ \E kind \in FeeKinds, outcome \in {"ok", "TOOK_LONG", "failed"} : FeeRun(kind, outcome)

SpecFee == Init /\ [][NextFee]_vars

\* ------------------------------------ daemon: the message processor's end
\* ch.pc is the position of comm_handler_loop: "top" (the while test),
\* "read" (inside read_socket), "poll" (inside poll), "stopped" (after the
\* loop).  ch.client: "none", "waiting" (connect issued, not accepted),
\* "silent" (accepted, nothing sent), "sent" (its request is in the socket),
\* "gone" (it closed its end).

\* the while test of line 123 and the branch of line 126; after the loop
\* the connection is closed (line 163)
LoopTest ==
    /\ ch.pc = "top"
    /\ ch' = IF ch.is_shutting_down
             THEN [ch EXCEPT !.pc = "stopped", !.data_socket = "closed",
                             !.client = IF @ = "waiting" THEN @ ELSE "none"]
             ELSE [ch EXCEPT !.pc = IF ch.data_socket = "open" THEN "read" ELSE "poll"]
    /\ UNCHANGED <<mbVars, hpVars, haltVars, rq, tq, rs, hb, lk, fx, tl, fee>>

\* read_socket (lines 339-348) returns: read() on the accepted socket blocks
\* until the client has sent a message or closed its end.  A message is
\* handled and answered, which closes the connection (send, line 318); an
\* empty read counts (lines 132-143)
ReadSocket ==
    /\ ch.pc = "read"
    /\ ch.client \in {"sent", "gone"}
    /\ ch' = IF ch.client = "sent"
             THEN [ch EXCEPT !.pc = "top", !.data_socket = "closed", !.client = "none",
                             !.served = @ + 1]
             ELSE IF ch.empty_read_count + 1 = EmptyReadThreshold
             THEN [ch EXCEPT !.pc = "top", !.data_socket = "closed", !.client = "none",
                             !.empty_read_count = 0]
             ELSE [ch EXCEPT !.pc = "top", !.empty_read_count = @ + 1]
    /\ UNCHANGED <<mbVars, hpVars, haltVars, rq, tq, rs, hb, lk, fx, tl, fee>>

\* poll returns (lines 147-158): a waiting client is accepted, otherwise
\* the timeout passes and the thread sleeps
PollSocket ==
    /\ ch.pc = "poll"
    /\ ch' = IF ch.client = "waiting"
             THEN [ch EXCEPT !.pc = "top", !.data_socket = "open", !.client = "silent",
                             !.empty_read_count = 0]
             ELSE [ch EXCEPT !.pc = "top"]
    /\ UNCHANGED <<mbVars, hpVars, haltVars, rq, tq, rs, hb, lk, fx, tl, fee>>

\* the client connects, sends its request or closes its end
ClientStep(to) ==
    /\ \/ to = "waiting" /\ ch.client = "none" /\ ch.served < MaxServed /\ ~ch.joined
       \/ to \in {"sent", "gone"} /\ ch.client = "silent"
    /\ ch' = [ch EXCEPT !.client = to]
    /\ UNCHANGED <<mbVars, hpVars, haltVars, rq, tq, rs, hb, lk, fx, tl, fee>>

\* deinit sets the flag (line 79)
Deinit ==
    /\ ~ch.is_shutting_down
    /\ ch' = [ch EXCEPT !.is_shutting_down = TRUE]
    /\ UNCHANGED <<mbVars, hpVars, haltVars, rq, tq, rs, hb, lk, fx, tl, fee>>

\* the join of line 82 returns when the thread has left comm_handler_loop
JoinThread ==
    /\ ch.is_shutting_down
    /\ ch.pc = "stopped"
    /\ ~ch.joined
    /\ ch' = [ch EXCEPT !.joined = TRUE]
    /\ UNCHANGED <<mbVars, hpVars, haltVars, rq, tq, rs, hb, lk, fx, tl, fee>>

NextShutdown ==
    \/ LoopTest
    \/ ReadSocket
    \/ PollSocket
    \/ \E to \in {"waiting", "sent", "gone"} : ClientStep(to)
    \/ Deinit
    \/ JoinThread

SpecShutdown == Init /\ [][NextShutdown]_vars

\* the thread and the joining deinit run whenever they can; nothing makes
\* the client send or close
SpecShutdownFair ==
    /\ SpecShutdown
    /\ WF_vars(LoopTest) /\ WF_vars(ReadSocket) /\ WF_vars(PollSocket)
    /\ WF_vars(JoinThread)

\* ====================================================== daemon: hp_manager
U16(x) == x % PortModulus

MakePorts(peer, user, tcp, udp) ==
    [peer_port |-> peer, user_port |-> user,
     gp_tcp_port_start |-> tcp, gp_udp_port_start |-> udp]

ZeroPorts == MakePorts(0, 0, 0, 0)
init_ports == MakePorts(InitPeerPort, InitUserPort, InitGpTcpPort, InitGpUdpPort)

\* the step of the loop of get_vacant_ports_list (lines 1093-1096)
NextSlot(p) ==
    MakePorts(U16(p.peer_port + 1), U16(p.user_port + 1),
              U16(p.gp_tcp_port_start + GpTcpPortCount),
              U16(p.gp_udp_port_start + GpUdpPortCount))

\* the tuple after last_assigned_ports (line 184)
NextPorts(last) ==
    MakePorts(U16(last.peer_port + 1), U16(last.user_port + 1),
              U16(last.gp_tcp_port_start + 2), U16(last.gp_udp_port_start + 2))

\* sqlite::get_max_ports: the highest ports in the instances table; with no
\* instance, the tuple before the configured first one
get_max_ports(insts) ==
    IF insts = {}
    THEN MakePorts(InitPeerPort - 1, InitUserPort - 1, InitGpTcpPort - 2, InitGpUdpPort - 2)
    ELSE MakePorts(Max({i.assigned_ports.peer_port : i \in insts}),
                   Max({i.assigned_ports.user_port : i \in insts}),
                   Max({i.assigned_ports.gp_tcp_port_start : i \in insts}),
                   Max({i.assigned_ports.gp_udp_port_start : i \in insts}))

RECURSIVE VacantScan(_, _, _, _)
VacantScan(vp, p, maxPeer, insts) ==
    IF ~(p.peer_port < maxPeer) THEN vp
    ELSE VacantScan(
            IF \E i \in insts : i.assigned_ports.peer_port = p.peer_port
            THEN vp ELSE Append(vp, p),
            NextSlot(p), maxPeer, insts)

get_vacant_ports_list(vp, insts) ==
    IF insts = {} THEN vp
    ELSE LET m == CHOOSE i \in insts :
                    \A j \in insts : j.assigned_ports.user_port <= i.assigned_ports.user_port
         IN VacantScan(vp, init_ports, m.assigned_ports.peer_port, insts)

\* a create that leaves the slot it used in the vacant list
PopVacantKeep(vp) == vp

\* vacant_ports.pop_back() (line 225)
PopVacant(vp) == SubSeq(vp, 1, Len(vp) - 1)

\* the tuple destroy_container returns to the vacant list (lines 506-519)
FreedPorts(p) ==
    IF p.gp_tcp_port_start = 0
    THEN LET increment == U16((p.peer_port - InitPeerPort) * 2)
         IN MakePorts(p.user_port, p.peer_port,
                      U16(InitGpTcpPort + increment), U16(InitGpUdpPort + increment))
    ELSE p

PushVacant(vp, p) ==
    IF \E i \in 1..Len(vp) : vp[i] = p THEN vp ELSE Append(vp, FreedPorts(p))

HpNames(insts) == {i.name : i \in insts}

\* the history of freed tuples without the tuple p
Unfreed(fr, p) ==
    LET Other(f) == f # p
    IN SelectSeq(fr, Other)

\* sqlite::is_container_exists: the row of the name
InstanceOf(insts, name) == CHOOSE i \in insts : i.name = name

\* sqlite::update_status_in_container
update_status_in_container(insts, name, status) ==
    {IF i.name = name THEN [i EXCEPT !.status = status] ELSE i : i \in insts}

\* ------------------------------------------------------------ comm_handler
\* a request read from the socket: shape "malformed" is not JSON, "noType"
\* has no type field, "badFields" lacks a field of its type
Request(type, name, shape) == [type |-> type, name |-> name, shape |-> shape]

NoRequest == Request("none", 0, "ok")

NoHpLog == [req |-> NoRequest, replies |-> <<>>]

RequestTypes == {"list", "create", "destroy", "start", "stop", "inspect"}

\* a send that writes nothing
sendNothing(replies, type, content, wok) == replies

\* send (lines 299-320): the frame written to the client, delivered when
\* the writes succeed (wok)
send(replies, type, content, wok) ==
    Append(replies, [type |-> type, content |-> content, delivered |-> wok])

\* __HANDLE_RESPONSE (lines 5-11): build the response, send it, return;
\* send closes the data socket (lines 309-317)
HandleResponse(req, type, content, wok) ==
    /\ hpLog' = [req |-> req, replies |-> send(<<>>, type, content, wok)]
    /\ data_socket' = "closed"

\* handle_message is called with a message read from an open data socket
\* (lines 125-131)
MessageRead ==
    /\ data_socket = "open"
    /\ hpOps < MaxHpOps
    /\ hpOps' = hpOps + 1
    /\ UNCHANGED <<empty_read_count, mbVars, haltVars, auxVars>>

\* json::extract_type: the type field of the request, empty when it has none
extract_type(req) == IF req.shape = "noType" THEN "" ELSE req.type

\* handle_message for a request that is answered before any operation is
\* called (lines 185-189, 208-209, 242-243, 254-255, 265-266, 276-277, 288)
HpReject(type, shape, wok) ==
    LET req == Request(type, 0, shape)
    IN /\ MessageRead
       /\ IF shape = "malformed"
          THEN HandleResponse(req, "error", "format_error", wok)
          ELSE IF extract_type(req) \notin RequestTypes
          THEN HandleResponse(req, "error", "type_error", wok)
          ELSE /\ shape = "badFields"
               /\ type # "list"
               /\ HandleResponse(req, type \o "_error", "format_error", wok)
       /\ UNCHANGED <<instances, os_users, vacant_ports, last_assigned_ports,
                      last_port_assign_from_vacant, freed>>

\* list and inspect (lines 194-203, 273-286)
HpQuery(type, name, wok) ==
    LET req == Request(type, name, "ok")
    IN /\ MessageRead
       /\ IF type = "list"
          THEN HandleResponse(req, "list_res", "list", wok)
          ELSE IF name \in HpNames(instances)
          THEN HandleResponse(req, "inspect_res", "instance", wok)
          ELSE HandleResponse(req, "inspect_error", "container_not_found", wok)
       /\ UNCHANGED <<instances, os_users, vacant_ports, last_assigned_ports,
                      last_port_assign_from_vacant, freed>>

CreateFailures == {"user_install_error", "instance_error", "db_write_error"}

InitiateFailures == {"conf_read_error", "container_conf_error", "container_start_error",
                     "container_update_error"}

\* a gate without the check of the allocated count
CreateGateNoMax(insts, name, fail) ==
    IF name \in HpNames(insts) THEN "instance_already_exists"
    ELSE IF fail \in {"db_read_error", "contractid_bad_format"} THEN fail
    ELSE "none"

\* the checks of create_new_instance before a port is chosen (lines 126-158)
CreateGate(insts, name, fail) ==
    IF name \in HpNames(insts) THEN "instance_already_exists"
    ELSE IF fail = "db_read_error" THEN "db_read_error"
    ELSE IF Cardinality(insts) >= MaxInstanceCount THEN "max_alloc_reached"
    ELSE IF fail = "contractid_bad_format" THEN "contractid_bad_format"
    ELSE "none"

\* the create request (lines 204-227): create_new_instance (hp_manager.cpp
\* lines 124-230), then initiate_instance (lines 239-305); fail names the
\* step that fails
HpCreate(name, fail, wok) ==
    LET req == Request("create", name, "ok")
        gate == CreateGate(instances, name, fail)
    IN
    /\ MessageRead
    /\ IF gate # "none"
       THEN /\ fail \in {"none", gate}
            /\ HandleResponse(req, "create_error", gate, wok)
            /\ UNCHANGED <<instances, os_users, vacant_ports, last_assigned_ports,
                           last_port_assign_from_vacant, freed>>
       ELSE LET fromVacant == vacant_ports # <<>>
                last == IF ~fromVacant /\ last_port_assign_from_vacant
                        THEN get_max_ports(instances) ELSE last_assigned_ports
                instance_ports == IF fromVacant THEN vacant_ports[Len(vacant_ports)]
                                  ELSE NextPorts(last)
            IN IF fail \in CreateFailures
               THEN /\ last_port_assign_from_vacant' = fromVacant
                    /\ last_assigned_ports' = last
                    /\ HandleResponse(req, "create_error", fail, wok)
                    /\ UNCHANGED <<instances, os_users, vacant_ports, freed>>
               ELSE /\ fail \in InitiateFailures \cup {"none"}
                    /\ instances' = instances \cup
                          {[name |-> name, assigned_ports |-> instance_ports,
                            status |-> IF fail = "none" THEN "running" ELSE "created"]}
                    /\ os_users' = os_users \cup {name}
                    /\ last_port_assign_from_vacant' = fromVacant
                    /\ vacant_ports' = IF fromVacant THEN PopVacant(vacant_ports)
                                       ELSE vacant_ports
                    /\ last_assigned_ports' = IF fromVacant THEN last ELSE instance_ports
                    /\ freed' = IF fail = "none" THEN Unfreed(freed, instance_ports)
                                 ELSE freed
                    /\ IF fail = "none"
                       THEN HandleResponse(req, "create_res", "instance", wok)
                       ELSE HandleResponse(req, "initiate_error", fail, wok)

\* the destroy request (lines 239-250) and destroy_container (hp_manager.cpp
\* lines 486-522); res: "uninstall_error" when uninstall_user fails,
\* "delete_error" when the deletion of the row fails
HpDestroy(name, res, wok) ==
    LET req == Request("destroy", name, "ok")
    IN
    /\ MessageRead
    /\ IF name \notin HpNames(instances)
       THEN /\ res = "ok"
            /\ HandleResponse(req, "destroy_error", "no_container", wok)
            /\ UNCHANGED <<instances, os_users, vacant_ports, freed>>
       ELSE IF res # "ok"
       THEN /\ os_users' = IF res = "delete_error" THEN os_users \ {name} ELSE os_users
            /\ HandleResponse(req, "destroy_error", "user_uninstall_error", wok)
            /\ UNCHANGED <<instances, vacant_ports, freed>>
       ELSE LET info == InstanceOf(instances, name)
            IN /\ instances' = instances \ {info}
               /\ os_users' = os_users \ {name}
               /\ vacant_ports' = PushVacant(vacant_ports, info.assigned_ports)
               /\ freed' = Append(Unfreed(freed, info.assigned_ports), info.assigned_ports)
               /\ HandleResponse(req, "destroy_res", "destroyed", wok)
    /\ UNCHANGED <<last_assigned_ports, last_port_assign_from_vacant>>

\* a stop that is not gated by the status
CanStopAny(insts, name) == name \in HpNames(insts)

\* the gate of stop_container (lines 357-368)
CanStop(insts, name) ==
    name \in HpNames(insts) /\ InstanceOf(insts, name).status = "running"

\* the gate of start_container (lines 388-399)
CanStart(insts, name) ==
    name \in HpNames(insts) /\ InstanceOf(insts, name).status = "stopped"

\* the stop request (lines 262-272) and stop_container (hp_manager.cpp lines
\* 355-379); res names the call that fails: docker_stop, the status update,
\* or stop_hpfs_systemd, which is called after the status is updated
HpStop(name, res, wok) ==
    LET req == Request("stop", name, "ok")
    IN
    /\ MessageRead
    /\ IF ~CanStop(instances, name)
       THEN /\ res = "ok"
            /\ HandleResponse(req, "stop_error", "stop_error", wok)
            /\ UNCHANGED instances
       ELSE /\ instances' = IF res \in {"ok", "hpfs_error"}
                            THEN update_status_in_container(instances, name, "stopped")
                            ELSE instances
            /\ IF res = "ok"
               THEN HandleResponse(req, "stop_res", "stopped", wok)
               ELSE HandleResponse(req, "stop_error", "stop_error", wok)
    /\ UNCHANGED <<os_users, vacant_ports, last_assigned_ports, last_port_assign_from_vacant,
                   freed>>

\* the start request (lines 251-261) and start_container (hp_manager.cpp
\* lines 386-436); res names the call that fails
HpStart(name, res, wok) ==
    LET req == Request("start", name, "ok")
    IN
    /\ MessageRead
    /\ IF ~CanStart(instances, name)
       THEN /\ res = "ok"
            /\ HandleResponse(req, "start_error", "start_error", wok)
            /\ UNCHANGED instances
       ELSE /\ instances' = IF res = "ok"
                            THEN update_status_in_container(instances, name, "running")
                            ELSE instances
            /\ IF res = "ok"
               THEN HandleResponse(req, "start_res", "started", wok)
               ELSE HandleResponse(req, "start_error", "start_error", wok)
    /\ UNCHANGED <<os_users, vacant_ports, last_assigned_ports, last_port_assign_from_vacant,
                   freed>>

\* the loop accepts a connection only while it has none (lines 145-155)
Connect ==
    /\ data_socket = "closed"
    /\ data_socket' = "open"
    /\ empty_read_count' = 0
    /\ hpLog' = NoHpLog
    /\ UNCHANGED <<instances, os_users, vacant_ports, last_assigned_ports,
                   last_port_assign_from_vacant, freed, hpOps, mbVars, haltVars, auxVars>>

\* an empty read (lines 132-143): the connection is dropped at the fifth
EmptyRead ==
    /\ data_socket = "open"
    /\ IF empty_read_count + 1 = EmptyReadThreshold
       THEN data_socket' = "closed" /\ empty_read_count' = 0
       ELSE data_socket' = data_socket /\ empty_read_count' = empty_read_count + 1
    /\ hpLog' = NoHpLog
    /\ UNCHANGED <<instances, os_users, vacant_ports, last_assigned_ports,
                   last_port_assign_from_vacant, freed, hpOps, mbVars, haltVars, auxVars>>

\* a failed read (lines 128-129)
ReadError ==
    /\ data_socket = "open"
    /\ data_socket' = "closed"
    /\ hpLog' = NoHpLog
    /\ UNCHANGED <<instances, os_users, vacant_ports, last_assigned_ports,
                   last_port_assign_from_vacant, freed, hpOps, empty_read_count, mbVars, haltVars, auxVars>>

\* the daemon restarts: the globals are initialised again and init reads
\* the vacant slots from the instances table (lines 9-23, 91)
HpRestart ==
    /\ hpOps < MaxHpOps
    /\ hpOps' = hpOps + 1
    /\ vacant_ports' = get_vacant_ports_list(<<>>, instances)
    /\ last_assigned_ports' = ZeroPorts
    /\ last_port_assign_from_vacant' = TRUE
    /\ data_socket' = "closed"
    /\ empty_read_count' = 0
    /\ hpLog' = NoHpLog
    /\ UNCHANGED <<instances, os_users, freed, mbVars, haltVars, auxVars>>

NextHp ==
    \/ \E n \in Names, wok \in BOOLEAN,
          f \in {"none", "db_read_error", "contractid_bad_format"}
                 \cup CreateFailures \cup InitiateFailures : HpCreate(n, f, wok)
    \/ \E n \in Names, res \in {"ok", "uninstall_error", "delete_error"}, wok \in BOOLEAN :
          HpDestroy(n, res, wok)
    \/ \E n \in Names, res \in {"ok", "docker_error", "db_error", "hpfs_error"},
          wok \in BOOLEAN : HpStop(n, res, wok)
    \/ \E n \in Names, res \in {"ok", "start_error", "db_error"}, wok \in BOOLEAN :
          HpStart(n, res, wok)
    \/ \E t \in {"list", "inspect"}, n \in Names, wok \in BOOLEAN : HpQuery(t, n, wok)
    \/ \E t \in RequestTypes \cup {"bogus"}, sh \in {"malformed", "noType", "badFields", "ok"},
          wok \in BOOLEAN : HpReject(t, sh, wok)
    \/ Connect
    \/ EmptyRead
    \/ ReadError
    \/ HpRestart

SpecHp == Init /\ [][NextHp]_vars

\* ================================================================ claims
QueuedFor(kind, tx) ==
    \E i \in 1..Len(concurrencyQueue.queue) :
        /\ concurrencyQueue.queue[i].callback.kind = kind
        /\ concurrencyQueue.queue[i].callback.tx = tx

QueuedForToken(kind, token) ==
    \E i \in 1..Len(concurrencyQueue.queue) :
        /\ concurrencyQueue.queue[i].callback.kind = kind
        /\ concurrencyQueue.queue[i].callback.token = token

\* the acquire handler that just finished did not complete the lease
AcquireFailed ==
    acqLog.log \in {"rejected", "insert_error", "busy_timeout", "create_error",
                    "initiate_error", "create_timeout", "create_timeout_destroy_error"}

C1_FailureCompensated ==
    AcquireFailed =>
        \/ QueuedFor("acquireError", acqLog.tx)
        \/ \E t \in Tokens : QueuedForToken("recreateLeaseOffer", t)

\* a step that submits acquireSuccess finds the instance of that lease
C1_SuccessStep ==
    \A tx \in TxIds :
        (<<"acquireSuccess", tx>> \in submitted' \ submitted) =>
            \E i \in 1..Len(concurrencyQueue.queue) :
                /\ concurrencyQueue.queue[i].callback.kind = "acquireSuccess"
                /\ concurrencyQueue.queue[i].callback.tx = tx
                /\ concurrencyQueue.queue[i].callback.token \in InstanceNames(sashiDb)

\* C1: every failed acquire is compensated (an acquireError or a refund is
\* enqueued, or the slot is re-offered), and acquireSuccess is never
\* submitted while the lease has no instance.
C1_Compensation == []C1_FailureCompensated /\ [][C1_SuccessStep]_vars

DisjointPorts(p, q) ==
    /\ p.peer_port # q.peer_port
    /\ p.user_port # q.user_port
    /\ p.gp_tcp_port_start # q.gp_tcp_port_start
    /\ p.gp_udp_port_start # q.gp_udp_port_start

\* C2: after any sequence of create, destroy and daemon restart, no two
\* instances share any of the four port values: a tuple is never handed out
\* while an instance holds it.
C2_PortsUnique ==
    \A i \in instances, j \in instances :
        i # j => i.name # j.name /\ DisjointPorts(i.assigned_ports, j.assigned_ports)

\* two instances, the first slot handed out again from the vacant list after
\* its holder was destroyed, the second slot still held
C2_Witness ==
    /\ Cardinality(instances) = 2
    /\ last_port_assign_from_vacant
    /\ last_assigned_ports = NextSlot(init_ports)
    /\ vacant_ports = <<>>
    /\ \E i \in instances : i.assigned_ports = init_ports
    /\ \E i \in instances : i.assigned_ports = NextSlot(init_ports)

\* no handler is running or waiting and the transaction queue is empty
Quiescent ==
    /\ acq.pc = "idle"
    /\ waiting = {}
    /\ ~pruner.running
    /\ ~leaseUpdateLock
    /\ schedPc = "idle"
    /\ ~concurrencyQueue.processing
    /\ concurrencyQueue.queue = <<>>

ActiveRows == {tx \in AllRows(leases) : leases[tx].status \in {ACQUIRED, EXTENDED}}

InstancesNamed(name) == {i \in 1..Len(sashiDb) : sashiDb[i].name = name}

\* C3: at quiescence every Acquired or Extended lease row has exactly one
\* instance of the same container name, and every instance has exactly one
\* such row.
C3_RowsMatchInstances ==
    Quiescent =>
        /\ \A tx \in ActiveRows :
              Cardinality(InstancesNamed(leases[tx].container_name)) = 1
        /\ \A i \in 1..Len(sashiDb) :
              Cardinality({tx \in ActiveRows : leases[tx].container_name = sashiDb[i].name}) = 1

\* C4: at quiescence activeInstanceCount equals the number of lease rows in
\* Acquired or Extended.
C4_CountMatchesRows == Quiescent => activeInstanceCount = Cardinality(ActiveRows)

\* C5: the persisted last_watched_ledger never decreases, whatever the
\* interleaving of the acquire, extend and terminate handlers.
C5_LedgerMonotonic == [][lastWatchedLedger' >= lastWatchedLedger]_vars

\* the expiry timeline together with the expiration queue
Timeline == expiryList \o instanceExpirationQueue

EntriesOf(tx) == {i \in 1..Len(Timeline) : Timeline[i].txHash = tx}

\* C6: the expiry timeline, together with the expiration queue, holds exactly
\* one entry for each lease row in Acquired or Extended and no entry for any
\* other lease, and each entry expires at the row's timestamp +
\* life_moments * moment size (read when no handler is running and the
\* transaction queue is empty).
C6_TimelineMirrorsRows ==
    Quiescent =>
        /\ \A tx \in ActiveRows :
              /\ Cardinality(EntriesOf(tx)) = 1
              /\ \A i \in EntriesOf(tx) :
                    Timeline[i].expiryTimestamp =
                        getExpiryTimestamp(leases[tx].timestamp, leases[tx].life_moments)
        /\ \A i \in 1..Len(Timeline) : Timeline[i].txHash \in ActiveRows

NonTerminalRows(name) ==
    {tx \in AllRows(leases) : /\ leases[tx].container_name = name
                              /\ leases[tx].status \in {ACQUIRING, ACQUIRED, EXTENDED}}

\* C7: at all times the lease store holds at most one row per container_name
\* whose status is Acquiring, Acquired or Extended.
C7_OneActiveRowPerContainer ==
    \A name \in Tokens : Cardinality(NonTerminalRows(name)) <= 1

\* the acquire handler that just finished tripped the 40% or the 80% gate
GateTripped ==
    acqLog.log \in {"busy_timeout", "create_timeout", "create_timeout_destroy_error"}

\* C8: an acquire that trips either budget gate ends with the lease row
\* SashiTimeout, no instance of the lease on the host, the slot's re-offer
\* enqueued and an acquireError for the acquire transaction enqueued.
C8_BudgetGateOutcome ==
    GateTripped =>
        /\ leases[acqLog.tx].status = SASHI_TIMEOUT
        /\ leases[acqLog.tx].container_name \notin InstanceNames(sashiDb)
        /\ QueuedForToken("recreateLeaseOffer", leases[acqLog.tx].container_name)
        /\ QueuedFor("acquireError", acqLog.tx)

\* the step in which handleAcquireLease ends after a create that succeeded
\* within both budgets
AcquireCreated == acq.pc = "create" /\ acqLog'.log = "created"

C9_AcquireStep ==
    AcquireCreated =>
        /\ acq.ev.token \in InstanceNames(sashiDb')
        /\ expiryList' = Append(expiryList,
                [txHash |-> acq.ev.tx, containerName |-> acq.ev.token,
                 expiryTimestamp |-> now + acq.ev.moments * MomentSize])
        /\ activeInstanceCount' = activeInstanceCount + 1
        /\ Len(concurrencyQueue'.queue) = Len(concurrencyQueue.queue) + 1
        /\ SubSeq(concurrencyQueue'.queue, 1, Len(concurrencyQueue.queue))
              = concurrencyQueue.queue
        /\ concurrencyQueue'.queue[Len(concurrencyQueue'.queue)].callback
              = Callback("acquireSuccess", acq.ev.tx, acq.ev.token, now)

\* the step in which the queued action submits acquireSuccess: the row it
\* was queued for, if the store still holds it, is Acquired afterwards and
\* carries the creation time
C9_ActionStep ==
    \A tx \in TxIds :
        (<<"acquireSuccess", tx>> \in submitted' \ submitted) =>
            /\ schedPc = "drain"
            /\ concurrencyQueue.queue[drain.idx].callback.kind = "acquireSuccess"
            /\ concurrencyQueue.queue[drain.idx].callback.tx = tx
            /\ HasRow(leases, tx) =>
                  /\ HasRow(leases', tx)
                  /\ leases'[tx].status = ACQUIRED
                  /\ leases'[tx].timestamp = concurrencyQueue.queue[drain.idx].callback.arg

ThrewAfterValidation ==
    acqLog.log \in {"insert_error", "create_error", "initiate_error",
                    "create_timeout_destroy_error"}

\* ... and the daemon had created the instance before the throw
ThrewAfterCreate == acqLog.log \in {"initiate_error", "create_timeout_destroy_error"}

\* C10: whenever acquire handling throws after the request was validated,
\* the lease row is Failed, an instance the handler created is destroyed
\* (the daemon carrying out the destroy the catch block asks for), the slot's
\* re-offer and an acquireError for the acquire transaction are enqueued, and
\* the lease-update lock is released.
C10_ThrowCompensated ==
    ThrewAfterValidation =>
        /\ HasRow(leases, acqLog.tx) => leases[acqLog.tx].status = FAILED
        /\ (ThrewAfterCreate /\ acqLog.cleanup) => acqLog.token \notin InstanceNames(sashiDb)
        /\ QueuedForToken("recreateLeaseOffer", acqLog.token)
        /\ QueuedFor("acquireError", acqLog.tx)
        /\ ~leaseUpdateLock

\* what handleExtendLease can log
ExtendLogs ==
    {"extend_bad_destination", "extend_no_token", "extend_low", "extend_no_instance",
     "extend_no_expiry", "extend_db_error", "extended"}

\* the step is a run of handleExtendLease
ExtendStep == acqLog'.log \in ExtendLogs /\ ledgerIndex' = ledgerIndex + 1

WholeMultiple(amount) == amount >= LeaseAmount /\ amount % LeaseAmount = 0

\* the step appends exactly one action of this kind for the transaction
EnqueuesOne(kind, tx) ==
    /\ Len(concurrencyQueue'.queue) = Len(concurrencyQueue.queue) + 1
    /\ SubSeq(concurrencyQueue'.queue, 1, Len(concurrencyQueue.queue)) = concurrencyQueue.queue
    /\ concurrencyQueue'.queue[Len(concurrencyQueue'.queue)].callback.kind = kind
    /\ concurrencyQueue'.queue[Len(concurrencyQueue'.queue)].callback.tx = tx

C11_RejectStep ==
    (ExtendStep /\ ~WholeMultiple(acqLog'.amount)) =>
        /\ EnqueuesOne("extendError", acqLog'.tx)
        /\ leases' = leases
        /\ expiryList' = expiryList

\* C11: an extend whose payment is not an integer multiple >= 1 of the lease
\* amount of the token enqueues an extendError and changes neither the lease
\* row nor the expiry entry.
C11_ExtendPaymentValidated == [][C11_RejectStep]_vars

\* a successful extend: entry moved by n moment sizes, row Extended with n
\* more life moments, one extendSuccess enqueued (n = payment / lease amount)
C12_SuccessStep ==
    (ExtendStep /\ acqLog'.log = "extended") =>
        LET n == acqLog'.amount \div LeaseAmount
            row == ActiveRowOf(leases, acqLog'.token)
            idx == findExpiryItem(expiryList, acqLog'.token)
        IN /\ row # 0 /\ idx # 0
           /\ expiryList' = [expiryList EXCEPT ![idx].expiryTimestamp = @ + n * MomentSize]
           /\ leases' = [leases EXCEPT ![row].status = EXTENDED,
                                       ![row].life_moments = @ + n]
           /\ EnqueuesOne("extendSuccess", acqLog'.tx)

\* an extend for a token with no row in Acquired/Extended or with no entry in
\* the expiry list
C12_NoLeaseStep ==
    (/\ ExtendStep
     /\ \/ ActiveRowOf(leases, acqLog'.token) = 0
        \/ findExpiryItem(expiryList, acqLog'.token) = 0) =>
        /\ leases' = leases
        /\ expiryList' = expiryList
        /\ EnqueuesOne("extendError", acqLog'.tx)

\* C12: a successful extend for n = payment / lease amount moments moves the
\* lease's expiry entry by exactly n * moment size, sets the row Extended with
\* life_moments + n and enqueues exactly one extendSuccess; an extend for a
\* lease that is not Acquired/Extended or has no expiry entry changes nothing
\* and enqueues extendError.
C12_ExtendEffect == [][C12_SuccessStep /\ C12_NoLeaseStep]_vars

\* the lease of tx 1 was extended by two moments
C12_Witness ==
    /\ acqLog.log = "extended" /\ acqLog.amount = 2 * LeaseAmount
    /\ HasRow(leases, 1) /\ leases[1].status = EXTENDED /\ leases[1].life_moments = 3
    /\ Len(expiryList) = 1
    /\ expiryList[1].expiryTimestamp = leases[1].timestamp + 3 * MomentSize
    /\ QueuedFor("extendSuccess", acqLog.tx)

\* an extend was refused because the token has no lease in Acquired/Extended
C12_WitnessNoLease == acqLog.log = "extend_no_instance" /\ QueuedFor("extendError", acqLog.tx)

\* C13: a valid terminate received while the ledger is halted is deferred,
\* not lost: no destroy is issued (the instance is still there) and the lease
\* is queued for expiration, so that it is destroyed once the flag clears
\* without waiting for its expiry time.
C13_TerminateDeferred ==
    acqLog.log = "terminate_halted" =>
        /\ acqLog.token \in InstanceNames(sashiDb)
        /\ \E i \in 1..Len(instanceExpirationQueue) :
              instanceExpirationQueue[i].containerName = acqLog.token

\* the steps the halted flag is meant to suspend: a pass of the orphan
\* pruner, the expiration pass of a scheduler tick, the terminate handler
PrunerPass == pruner.running /\ ~pruner'.running

ExpirationPass ==
    \/ schedPc = "idle" /\ schedPc' # "idle"
    \/ schedPc = "expireWait" /\ schedPc' # "expireWait"

TerminateHandled == acqLog'.tx # 0 /\ acqLog'.log \in {"none", "terminate_halted"}

OfferCount(q) == Cardinality(Queued(q, "recreateLeaseOffer"))

IsPrefix(s, t) == Len(s) <= Len(t) /\ SubSeq(t, 1, Len(s)) = s

C14_HaltedStep ==
    (xrplHalted /\ (PrunerPass \/ ExpirationPass \/ TerminateHandled)) =>
        /\ InstanceNames(sashiDb') = InstanceNames(sashiDb)
        /\ OfferCount(concurrencyQueue'.queue) <= OfferCount(concurrencyQueue.queue)
        /\ IsPrefix(instanceExpirationQueue, instanceExpirationQueue')

\* C14: while #xrplHalted is set, no step of the expiration pass, the
\* terminate handler or the orphan pruner destroys an instance or enqueues
\* the re-offer of its lease, and the entries of the expiration queue stay
\* where they are, in their order.
C14_DestructiveSuspended == [][C14_HaltedStep]_vars

\* the time since the last ledger event, or since startup (time 0) when
\* there was none, exceeds the halt timeout at the check that just ran
HaltDue ==
    haltLog.at - (IF lastLedgerTime = Undefined THEN 0 ELSE lastLedgerTime)
        > HaltTimeout * MsPerSec

\* C15: after a halt check at which the time since the last ledger event
\* exceeds the halt timeout, or at which no ledger event was received since
\* startup, #xrplHalted is set; a check that schedules the grace timer sets
\* it to the time of the check plus the grace threshold times the time
\* since the halt began, and the flag is set for as long as the timer runs.
C15_HaltDetection ==
    /\ (haltLog.checked /\ HaltDue) => xrplHalted
    /\ haltLog.scheduled =>
          graceTimeoutRef = haltLog.at + GracePeriod(haltLog.at - lastHaltedTime)
    /\ graceTimeoutRef # Undefined => xrplHalted

\* ---------------------------------------------------------- daemon claims
\* the step handles a request of the given type
Handles(type) == hpOps' = hpOps + 1 /\ hpLog'.req.type = type /\ hpLog'.req.shape = "ok"

\* the one reply of the request just handled
Reply == hpLog.replies[1]

AllocatorUnchanged ==
    UNCHANGED <<instances, os_users, vacant_ports, last_assigned_ports,
                last_port_assign_from_vacant>>

AtMax == Cardinality(instances) >= MaxInstanceCount

C16_AnyCreateStep ==
    (Handles("create") /\ AtMax) =>
        /\ Reply' = [type |-> "create_error", content |-> "max_alloc_reached",
                     delivered |-> Reply'.delivered]
        /\ AllocatorUnchanged

\* C16 as stated: the instance count never exceeds max_instance_count, and
\* every create request handled with the count at the maximum is answered
\* create_error/max_alloc_reached and changes nothing.
C16_EveryCreateAtMax ==
    [](Cardinality(instances) <= MaxInstanceCount) /\ [][C16_AnyCreateStep]_vars

C16_GateStep ==
    (Handles("create") /\ AtMax) =>
        /\ Reply'.type = "create_error"
        /\ Reply'.content =
              IF hpLog'.req.name \in HpNames(instances) THEN "instance_already_exists"
              ELSE IF Reply'.content = "db_read_error" THEN "db_read_error"
              ELSE "max_alloc_reached"
        /\ AllocatorUnchanged

\* C16 (amended): the instance count never exceeds max_instance_count; a
\* create request handled with the count at the maximum is answered
\* create_error and creates no OS user, container or row and consumes no
\* port tuple; its reason is max_alloc_reached when the name is not in use
\* and the count could be read, instance_already_exists when the name is
\* in use.
C16_MaxInstances ==
    [](Cardinality(instances) <= MaxInstanceCount) /\ [][C16_GateStep]_vars

\* a create for a new name was refused with the count at the maximum
C16_Witness ==
    /\ hpLog.req.type = "create"
    /\ hpLog.req.name \notin HpNames(instances)
    /\ Cardinality(instances) = MaxInstanceCount
    /\ Len(hpLog.replies) = 1
    /\ Reply.content = "max_alloc_reached"

Replied(type) == Len(hpLog.replies) = 1 /\ Reply.type = type

\* C17: after a create request was answered with initiate_error the instance
\* store holds no row for its container_name and the OS user and container
\* of that name are removed.
C17_InitiateRolledBack ==
    Replied("initiate_error") =>
        /\ hpLog.req.name \notin HpNames(instances)
        /\ hpLog.req.name \notin os_users

StatusOf(insts, name) ==
    IF name \in HpNames(insts) THEN InstanceOf(insts, name).status ELSE "none"

Lifecycle == {<<"created", "running">>, <<"running", "stopped">>, <<"stopped", "running">>}

C18_GatedStep(type, from, to) ==
    Handles(type) =>
        LET name == hpLog'.req.name
        IN IF StatusOf(instances, name) = from
           THEN /\ Reply'.type = type \o "_res" => StatusOf(instances', name) = to
                /\ Reply'.type \in {type \o "_res", type \o "_error"}
           ELSE /\ Reply'.type = type \o "_error"
                /\ instances' = instances

C18_LifecycleStep ==
    /\ \A n \in Names :
          LET old == StatusOf(instances, n)
              new == StatusOf(instances', n)
          IN \/ old = new
             \/ old = "none" /\ new \in {"created", "running"} /\ Handles("create")
             \/ new = "none" /\ Handles("destroy")
             \/ <<old, new>> \in Lifecycle
    /\ C18_GatedStep("start", "stopped", "running")
    /\ C18_GatedStep("stop", "running", "stopped")

\* C18: an instance's status changes only along created -> running,
\* running -> stopped and stopped -> running, and any status can be
\* destroyed; a start is answered start_res only for a stopped instance,
\* which is then running, a stop is answered stop_res only for a running
\* instance, which is then stopped, and a start or stop of an instance in
\* another status or of an unknown name is answered with an error and
\* changes nothing.
C18_StatusLifecycle == [][C18_LifecycleStep]_vars

\* an instance was stopped and started again
C18_Witness ==
    /\ Replied("start_res")
    /\ StatusOf(instances, hpLog.req.name) = "running"

Occurrences(seq, x) == Cardinality({i \in 1..Len(seq) : seq[i] = x})

C19_DestroyStep ==
    (Handles("destroy") /\ Reply'.type = "destroy_res") =>
        LET name == hpLog'.req.name
        IN /\ name \notin HpNames(instances')
           /\ Occurrences(vacant_ports', InstanceOf(instances, name).assigned_ports) = 1

C19_CreateStep ==
    (Handles("create") /\ Reply'.type = "create_res" /\ freed # <<>>) =>
        InstanceOf(instances', hpLog'.req.name).assigned_ports = freed[Len(freed)]

\* C19: a successful destroy deletes the row and leaves the instance's port
\* tuple on the vacant list exactly once, and a successful create receives
\* the tuple of the most recently destroyed instance whose tuple no
\* successful create has received yet, before any new tuple is allocated.
C19_LifoReuse == [][C19_DestroyStep /\ C19_CreateStep]_vars

\* the reply types a request of the given type can be answered with
RepliesOf(type) ==
    {type \o "_res", type \o "_error"} \cup
    (IF type = "create" THEN {"initiate_error"} ELSE {})

C20_ReplyOfRequest ==
    hpLog.req.type # "none" =>
        /\ Len(hpLog.replies) = 1
        /\ data_socket = "closed"
        /\ IF hpLog.req.shape = "malformed"
           THEN Reply.type = "error" /\ Reply.content = "format_error"
           ELSE IF hpLog.req.shape = "noType" \/ hpLog.req.type \notin RequestTypes
           THEN Reply.type = "error" /\ Reply.content = "type_error"
           ELSE /\ Reply.type \in RepliesOf(hpLog.req.type)
                /\ hpLog.req.shape = "badFields" =>
                      /\ Reply.type = hpLog.req.type \o "_error"
                      /\ Reply.content = "format_error"

C20_ServedStep ==
    /\ hpLog'.req.type # "none" /\ hpOps' = hpOps + 1 => data_socket = "open"
    /\ data_socket' = "open" /\ data_socket = "closed" => hpLog'.replies = <<>>

C21_NoResubmission == \A i \in 1..Len(rq.log) : ~rq.log[i].again

\* C22: an action is completed successfully only when every action queued
\* before it has been completed or dropped.
C22_EnqueueOrder ==
    \A a \in ActionIds, b \in ActionIds :
        a < b /\ tq.result[b] = "done" => tq.result[a] \in {"done", "dropped"}

\* C23: the callback of a queued action runs at most maxAttempts + 1 times,
\* and never again once the action has succeeded or has been dropped.
C23_RunStep ==
    \A i \in ActionIds : tq'.runs[i] # tq.runs[i] => tq.result[i] = "queued"

C23_BoundedAttempts ==
    /\ [](\A i \in ActionIds : tq.runs[i] <= tq.limit[i] + 1)
    /\ [][C23_RunStep]_vars

C23_Witness ==
    \E i \in ActionIds, j \in ActionIds :
        /\ tq.result[i] = "dropped" /\ tq.limit[i] = MaxAttempts
        /\ tq.runs[i] = MaxAttempts + 1
        /\ tq.result[j] = "dropped" /\ tq.limit[j] = HeartbeatRetryCount
        /\ tq.runs[j] = HeartbeatRetryCount + 1

\* C24: a pass of the orphan pruner queues a refundTenant that will be
\* submitted only for a lease whose row was in Acquiring and whose token is
\* owned by the tenant.
RefundsQueued(q) == {i \in Queued(q, "refundTenant") : q[i].callback.arg}

C24_PruneStep ==
    PrunerPass =>
        \A i \in RefundsQueued(concurrencyQueue'.queue) :
            i > Len(concurrencyQueue.queue) =>
                LET cb == concurrencyQueue'.queue[i].callback
                IN /\ leases[cb.tx].status = ACQUIRING
                   /\ uriTokens[cb.token] = "tenant"

C24_RefundOnlyAcquiring == [][C24_PruneStep]_vars

\* C25: an acquire event delivered again for a lease that is Acquired
\* changes nothing: the row, the instance, the expiry list and the active
\* count stay as they are, and no action is queued.
Redelivered ==
    /\ HasRow(leases, acqLog'.tx)
    /\ leases[acqLog'.tx].status = ACQUIRED
    /\ acqLog'.log = "insert_error"

C25_RedeliverStep ==
    Redelivered =>
        /\ leases' = leases
        /\ sashiDb' = sashiDb
        /\ expiryList' = expiryList
        /\ activeInstanceCount' = activeInstanceCount
        /\ concurrencyQueue'.queue = concurrencyQueue.queue

C25_RedeliveryNoOp == [][C25_RedeliverStep]_vars

\* ------------------------------------------------------------ restart claims
\* C26: after a restart with catch-up the lease store and the instance store
\* are those of the run that was never stopped.
SameStores == rs.a.st.leases = rs.b.st.leases /\ rs.a.st.sashiDb = rs.b.st.sashiDb

Replies == {"acquireSuccess", "acquireError", "extendSuccess", "extendError", "refundTenant"}

MissedAcquires ==
    {i \in 1..Len(rs.hist) : /\ rs.hist[i].ledger > rs.lwl
                             /\ rs.hist[i].kind = "acquire"
                             /\ rs.hist[i].shape = "ok"}

C26_RestartStep ==
    ~rs.up /\ rs'.up =>
        /\ AllRows(rs'.b.st.leases) \subseteq AllRows(rs.b.st.leases)
        /\ InstanceNames(rs'.b.st.sashiDb) \subseteq InstanceNames(rs.b.st.sashiDb)
        /\ \A i \in MissedAcquires : <<"refundTenant", rs.hist[i].tx>> \in rs'.b.submitted
        /\ \A tx \in TxIds :
              <<"refundTenant", tx>> \in rs'.b.submitted \ rs.b.submitted =>
                  \A k \in Replies : <<k, tx>> \notin rs.b.submitted
        /\ \A i \in 1..Len(rs'.b.st.expiryList) :
              rs.b.st.leases[rs'.b.st.expiryList[i].txHash].status \in {ACQUIRED, EXTENDED}

C27_RunStep ==
    \A i \in 1..Len(hb'.log) :
        LET s == hb'.log[i]
        IN /\ \A e \in hb.accepted : e[1] = s.moment => e[2] = s.id
           /\ ~s.vote => <<s.moment, s.id>> \notin hb.accepted

C27_OncePerMoment == [][C27_RunStep]_vars

\* -------------------------------------------------------------- lock claims
\* C29: while a drain is in progress nothing but the drain's own final
\* assignment changes the queue: no enqueuer and no delayed retry pushes
\* into it, and no enqueuer holds the queue's lock.
C29_DrainStep ==
    tq.dpc = "run" =>
        /\ tq'.queue # tq.queue => tq'.dpc = "idle"
        /\ \A e \in Enqueuers : tq.epc[e] # "held"

C29_DrainExclusive == [][C29_DrainStep]_vars

\* C28: the lease-update lock gives mutual exclusion: at most one of the
\* acquire handler, the expiration pass, the orphan pruner and the terminate
\* handler is inside the lease-update section, and the flag stays set while
\* one of them is inside (nobody but the holder clears it).
InSection(p) == "lease" \in lk.held[p]

C28_MutualExclusion ==
    /\ Cardinality({p \in LockProcs : InSection(p)}) <= 1
    /\ (\E p \in LockProcs : InSection(p)) => lk.lease

\* C30: the two locks never deadlock: no execution waits for the
\* lease-update lock while it holds the queue lock, no execution waits for a
\* lock it holds, and every execution that takes a lock comes to its end
\* again with both locks released, on the normal path and after a throw: it
\* neither spins in an acquire function for ever nor keeps a lock.
C30_Ordered ==
    \A p \in LockProcs :
        /\ lk.pc[p] \in {"wait", "checked"} =>
            /\ lk.want[p] = "lease" => lk.held[p] = {}
            /\ lk.want[p] \notin lk.held[p]
        /\ lk.pc[p] = "out" => lk.held[p] = {}

Submits(r, step) == \E i \in 1..Len(r.log) : r.log[i].step = step

C31_AttemptStep ==
    (rq.state = "queued" /\ rq.kind = "recreateLeaseOffer" /\ rq' # rq) =>
        /\ Submits(rq', 2) =>
              /\ 1 \in rq'.validated \/ rq.status = BURNED
              /\ rq.noLeaseRecord \/ rq.status = BURNED \/ Submits(rq', 1)
        /\ Submits(rq', 1) =>
              rq.noLeaseRecord \/ rq.status \in {DESTROYED, FAILED, SASHI_TIMEOUT}
        /\ (rq.status # "none" /\ rq'.status = "none") =>
              /\ Submits(rq', 2)
              /\ 2 \in rq'.validated
              /\ rq'.state = "done"

C31_ReofferOrder == [][C31_AttemptStep]_vars

\* a row that was Destroyed is burned, offered again and deleted
C31_Witness ==
    /\ rq.kind = "recreateLeaseOffer"
    /\ rq.state = "done"
    /\ ~rq.noLeaseRecord
    /\ rq.status = "none"
    /\ rq.validated = {1, 2}
    /\ rq.attempts > 0

\* ---------------------------------------------------- slot-count claims
\* C32: when the fix applies (a total is configured and no more leases are
\* sold than the total), sold + unsold = total afterwards and no lease index
\* is held twice: with too many tokens the highest-indexed unsold tokens are
\* burned and nothing is offered, with too few nothing is burned and the
\* offers are for indexes of 0..total-1 that neither a sold lease nor an
\* unsold token holds.
C32_SlotCountFixed ==
    (fx.phase = "fixed" /\ fx.total # 0 /\ Cardinality(fx.sold) <= fx.total) =>
        /\ Cardinality(fx.sold) + Cardinality(fx.unsold \ fx.burn)
             + Cardinality(fx.create) = fx.total
        /\ fx.burn \subseteq fx.unsold
        /\ \A b \in fx.burn : \A k \in fx.unsold \ fx.burn : k < b
        /\ fx.create \subseteq 0..(fx.total - 1)
        /\ fx.create \cap (fx.sold \cup fx.unsold) = {}
        /\ fx.burn = {} \/ fx.create = {}

\* ------------------------------------------------- expiration pass claims
\* C33: on a scheduler tick the expiration pass takes every timeline entry
\* with expiryTimestamp <= now out of the timeline (an entry that expires
\* exactly now included) and leaves every entry with expiryTimestamp > now
\* in it.
C33_TickStep ==
    (schedPc = "idle" /\ ExpirationPass) =>
        /\ \A i \in 1..Len(expiryList') : expiryList'[i].expiryTimestamp > now
        /\ \A i \in 1..Len(expiryList) :
              expiryList[i].expiryTimestamp > now =>
                  \E j \in 1..Len(expiryList') : expiryList'[j] = expiryList[i]

C33_ExpiredMoved == [][C33_TickStep]_vars

\* C34: the entries one tick takes from the timeline are processed in
\* non-decreasing order of their expiryTimestamp, whatever the order in which
\* they were inserted and extended.
C34_ExpiryOrder ==
    \A i \in 1..Len(tl.processed) : \A j \in 1..Len(tl.processed) :
        i < j => tl.processed[i].expiryTimestamp <= tl.processed[j].expiryTimestamp

\* --------------------------------------------------- halt detector claims
\* C35: a halt check that finds the ledger gap at the halt threshold while a
\* grace timer is pending cancels the timer and leaves the flag set; the
\* flag clears only when a pending grace timer fires at its deadline, and a
\* timer is set only by a check that finds the gap below the threshold
\* again, for a grace period computed at that check.
GapOver == lastLedgerTime # Undefined /\ clock - lastLedgerTime >= HaltTimeout * MsPerSec

C35_CheckStep ==
    /\ (haltLog'.checked /\ GapOver /\ xrplHalted /\ graceTimeoutRef # Undefined) =>
          /\ graceTimeoutRef' = Undefined
          /\ xrplHalted'
    /\ (xrplHalted /\ ~xrplHalted') =>
          /\ graceTimeoutRef # Undefined
          /\ clock >= graceTimeoutRef
          /\ graceTimeoutRef' = Undefined
    /\ (graceTimeoutRef' # Undefined /\ graceTimeoutRef' # graceTimeoutRef) =>
          /\ haltLog'.checked
          /\ ~GapOver
          /\ graceTimeoutRef = Undefined
          /\ graceTimeoutRef' = clock + GracePeriod(clock - lastHaltedTime)

C36_RunStep ==
    (fee'.last # fee.last \/ fee'.attempts # fee.attempts) =>
        LET kind == fee'.last.kind
            k == fee'.attempts[kind]
        IN /\ (fee'.last.outcome = "TOOK_LONG" /\ fee.affordableExtraFee > 0 /\ k > 0) =>
                 /\ fee'.apply
                 /\ fee'.uplift = (fee.affordableExtraFee * k) \div FeeMaxAttempts(kind)
           /\ fee'.uplift >= 0
           /\ fee'.uplift <= fee.affordableExtraFee
           /\ fee.apply => fee'.last.sent = fee.uplift
           /\ fee'.last.outcome = "ok" => ~fee'.apply /\ fee'.uplift = 0

C36_FeeUplift == [][C36_RunStep]_vars

\* --------------------------------------------------- daemon shutdown claims
\* C37: once deinit has set is_shutting_down, the message-processor thread
\* leaves its loop and is joined, whether no client is connected, a client
\* has sent its request or a connected client sends nothing.
C37_ShutdownJoins == ch.is_shutting_down ~> ch.joined

\* ------------------------------------------------- expiration queue claims
\* C38: an entry leaves the expiration queue only when its container is
\* destroyed and its lease row marked Destroyed (or deleted after it), or
\* when its lease token no longer exists: after a failed destroy the entry
\* stays queued for a later tick.
LeaseDestroyed(L, db, e) ==
    /\ e.containerName \notin InstanceNames(db)
    /\ HasRow(L, e.txHash) => L[e.txHash].status \in {DESTROYED, BURNED}

C38_LeaveStep ==
    \A i \in 1..Len(instanceExpirationQueue) :
        LET e == instanceExpirationQueue[i]
        IN (\A j \in 1..Len(instanceExpirationQueue') :
               instanceExpirationQueue'[j].containerName # e.containerName) =>
              \/ uriTokens[e.containerName] = "none"
              \/ LeaseDestroyed(leases', sashiDb', e)

C38_ExpiryRetried == [][C38_LeaveStep]_vars

\* C39: the cached active-instance count is never negative and never above
\* the total instance count (the host offers one lease token per instance
\* slot), whatever acquires, expirations, terminations and prune passes ran.
C39_CountInRange ==
    /\ activeInstanceCount >= 0
    /\ activeInstanceCount <= NumTokens

\* ------------------------------------------------ daemon error-path claims
\* C40: a daemon operation answered with an error leaves the instance store
\* as it was: stop_error and start_error leave the stored status, a
\* destroy_error leaves the rows and the vacant-port list, a create_error
\* adds no row and leaves the port tuple the next create receives.
NextCreatePorts(vp, last, fromVacant, insts) ==
    IF vp # <<>> THEN vp[Len(vp)]
    ELSE NextPorts(IF fromVacant THEN get_max_ports(insts) ELSE last)

AnsweredWith(request, reply) ==
    /\ Handles(request)
    /\ Len(hpLog'.replies) = 1
    /\ hpLog'.replies[1].type = reply

C40_ErrorStep ==
    /\ AnsweredWith("stop", "stop_error") => instances' = instances
    /\ AnsweredWith("start", "start_error") => instances' = instances
    /\ AnsweredWith("destroy", "destroy_error") =>
          instances' = instances /\ vacant_ports' = vacant_ports
    /\ AnsweredWith("create", "create_error") =>
          /\ instances' = instances
          /\ NextCreatePorts(vacant_ports', last_assigned_ports',
                             last_port_assign_from_vacant', instances')
               = NextCreatePorts(vacant_ports, last_assigned_ports,
                                 last_port_assign_from_vacant, instances)

C40_ErrorsLeaveStore == [][C40_ErrorStep]_vars

====
